---- MODULE Spec2Model ----
(***************************************************************************)
(* Model of the orchestration core of src/src/core/unified_agent_system.py *)
(* (UnifiedAgentOrchestrator, TransparencyLogger, SandboxedExecutor,       *)
(* SessionManager).                                                        *)
(*                                                                         *)
(* The program is an asyncio program: one event loop, coroutines that run  *)
(* without interruption between two awaits that really suspend.  Every     *)
(* action below is one such uninterrupted run of one coroutine.            *)
(***************************************************************************)
EXTENDS Integers, Sequences, FiniteSets, TLC

(***************************************************************************)
(* Bounds of the model.                                                    *)
(***************************************************************************)
MaxTasks == 2        \* execute_task calls made in one behaviour
MaxSessions == 1     \* SessionManager.create_session calls (fresh uuid4 values)
MaxCheckpoints == 1  \* checkpoint documents in storage
MaxRestores == 1     \* restore_session calls that construct a logger
MaxTicks == 1        \* advances of the wall clock
MaxSubscribers == 2  \* subscribe calls
MaxExecutions == 2   \* execute_command calls made on the executor directly
MaxExecTicks == 4    \* seconds the wall clock advances while they are studied
MaxLogRestores == 2  \* as MaxRestores, where the logs and their subscribers are studied

(***************************************************************************)
(* Program constants.                                                      *)
(***************************************************************************)
DefaultTimeout == 30   \* execute_command(..., timeout: int = 30), seconds

\* AgentType values
PLANNING == "planning_agent"
CODING == "coding_agent"
TESTING == "testing_agent"
DEPLOYMENT == "deployment_agent"
RESEARCH == "research_agent"
UI_GENERATION == "ui_agent"
BACKEND == "backend_agent"
ORCHESTRATOR == "orchestrator_agent"

\* ExecutionMode values
OPENHANDS == "openhands"
MANUS == "manus"
EMERGENT == "emergent"
HYBRID == "hybrid"

ExecutionMode == {OPENHANDS, MANUS, EMERGENT, HYBRID}

\* the component list of _execute_emergent_task
Components == <<"frontend", "backend", "database", "authentication", "deployment">>

(***************************************************************************)
(* Inputs.                                                                 *)
(***************************************************************************)
\* values of TaskContext.assigned_agents a caller passes ([] is the default
\* that __post_init__ fills in)
RoleLists == {<<>>, <<CODING, RESEARCH>>}

\* how far the wall clock moves in one advance of the model: a whole command
\* timeout (times that differ by less are the same time of the model)
TickSteps == {DefaultTimeout}

\* the timeout arguments of execute_command, and how long
\* docker_client.containers.run takes to create and start the container, in
\* seconds
Timeouts == {1, 2}
LaunchTimes == {0, 1}

\* what the sandboxed command does: exit 0, exit 1, run past the timeout, or
\* fail to launch / to decode its output (an exception inside the executor)
Behaviours == {"exit0", "exit1", "overrun", "infra_error"}

(***************************************************************************)
(* Identifiers.  A session id is a uuid4 string or any string a caller     *)
(* passes; a checkpoint id is f"{session_id}_restore_{int(time.time())}".  *)
(* base 0 is a string that no create_session call issued.                  *)
(***************************************************************************)
NotRestore == -1

SessionId(b) == [base |-> b, restore |-> NotRestore]

\* a checkpoint filed under the id of its session
CheckpointIdOfSession(sid, t) == sid

CheckpointId(sid, t) == [base |-> sid.base, restore |-> t]

(***************************************************************************)
(* Sequence helpers.                                                       *)
(***************************************************************************)
Last(s) == s[Len(s)]

RECURSIVE Gcd(_, _)
Gcd(a, b) == IF b = 0 THEN a ELSE Gcd(b, a % b)

\* a float is modelled as the exact fraction num/den in lowest terms
Frac(n, d) == LET g == Gcd(n, d) IN [num |-> n \div g, den |-> d \div g]

(***************************************************************************)
(* State.                                                                  *)
(***************************************************************************)
VARIABLES
    now,                   \* time.time(), in whole seconds
    ticks,                 \* how often the clock advanced (bounds the model)
    docker_client,         \* SandboxedExecutor.docker_client is set
    active_sessions,       \* SessionManager.active_sessions: id -> SessionState
    storage,               \* the <id>.json documents under storage_path
    loggers,               \* the TransparencyLogger objects ever constructed
    transparency_loggers,  \* orchestrator.transparency_loggers: id -> logger object
    metrics,               \* orchestrator.metrics
    tasks,                 \* the execute_task calls, in call order
    last_call,             \* what the session-management call that has just
                           \* ended hands to its caller
    callbacks,             \* the callables ever passed to subscribe
    ready,                 \* the event loop's tasks that create_task scheduled
                           \* and that have not started, oldest first
    handling,              \* the started notification tasks that are suspended
    executions,            \* the execute_command calls made on the executor
                           \* directly, in call order
    workspace,             \* the directory tree that _capture_workspace reads
    target_workspace,      \* the directory tree that _restore_workspace writes
    captured,              \* what _capture_workspace returned, None before
    restored               \* what the _restore_workspace call found and did

notifications == <<callbacks, ready, handling>>

workspaces == <<workspace, target_workspace, captured, restored>>

vars == <<now, ticks, docker_client, active_sessions, storage, loggers,
          transparency_loggers, metrics, tasks, last_call, notifications,
          executions,
          workspaces>>

(***************************************************************************)
(* Records.                                                                *)
(***************************************************************************)
\* Python's None where a dict is expected
None == [none |-> TRUE]

\* Python's {}
EmptyDict == [empty_dict |-> TRUE]

\* Python's None where a string is expected
NoneStr == "None"

\* AgentAction, without the fields the orchestrator never reads back
\* (timestamp, input_data).  description holds the part of the f-string that
\* varies.  task is a history field: the execute_task call that appended it.
AgentAction(agent_type, action_type, description) ==
    [agent_type |-> agent_type, action_type |-> action_type,
     description |-> description, output_data |-> None, execution_time |-> 0,
     success |-> TRUE, error_message |-> NoneStr]

\* the marker of an execute_command call in a coroutine's sequence of steps
InvokeExecutor == AgentAction("executor", "execute_command", "")

SessionState(session_id, user_id, workspace_snapshot, transparency_log, checkpoint_name) ==
    [session_id |-> session_id, user_id |-> user_id,
     workspace_snapshot |-> workspace_snapshot,
     transparency_log |-> transparency_log, checkpoint_name |-> checkpoint_name]

TransparencyLogger(session_id) ==
    [session_id |-> session_id, actions |-> <<>>, subscribers |-> <<>>]

\* log_action with the bug of inserting the action at the head of the list
log_action_at_head(lg, action) == [lg EXCEPT !.actions = <<action>> \o @]

\* an append that is lost when another call wrote last
log_action_unserialized(lg, action) ==
    [lg EXCEPT !.actions =
        IF @ # <<>> /\ @[Len(@)].task # action.task THEN @ ELSE Append(@, action)]

\* TransparencyLogger.log_action: the action goes to the end of the list
log_action(lg, action) == [lg EXCEPT !.actions = Append(@, action)]

RECURSIVE log_all(_, _)
log_all(lg, acts) ==
    IF acts = <<>> THEN lg ELSE log_all(log_action(lg, Head(acts)), Tail(acts))

\* what the callables passed to subscribe are: a coroutine function whose
\* body awaits, a coroutine function whose body raises, and a plain function
SubscriberKinds == {"coroutine", "coroutine_raises", "function"}

Callback(kind) == [kind |-> kind, received |-> <<>>]

\* the task that asyncio.create_task schedules for subscriber(action)
NotificationTask(callback, action) == [callback |-> callback, action |-> action.id]

\* the body of the loop of log_action over subscribers.  Calling a coroutine
\* function runs nothing of it, and create_task puts the coroutine at the end
\* of the loop's ready queue; a plain function runs to its end inside the
\* call, and whatever it raises, or the TypeError of create_task on what it
\* returns, is caught and logged
notify(loop, callback, action) ==
    IF loop.callbacks[callback].kind = "function"
    THEN [loop EXCEPT !.callbacks[callback].received = Append(@, action.id)]
    ELSE [loop EXCEPT !.ready = Append(@, NotificationTask(callback, action))]

\* the loop without its try: what the first plain function raises ends it
RECURSIVE notify_subscribers_unguarded(_, _, _)
notify_subscribers_unguarded(loop, subscribers, action) ==
    IF subscribers = <<>> THEN loop
    ELSE IF loop.callbacks[Head(subscribers)].kind = "function"
         THEN notify(loop, Head(subscribers), action)
         ELSE notify_subscribers_unguarded(notify(loop, Head(subscribers), action),
                                           Tail(subscribers), action)

RECURSIVE notify_subscribers(_, _, _)
notify_subscribers(loop, subscribers, action) ==
    IF subscribers = <<>> THEN loop
    ELSE notify_subscribers(notify(loop, Head(subscribers), action),
                            Tail(subscribers), action)

\* what the log_action calls on acts, in order, do to the event loop
RECURSIVE notify_all(_, _, _)
notify_all(loop, subscribers, acts) ==
    IF acts = <<>> THEN loop
    ELSE notify_all(notify_subscribers(loop, subscribers, Head(acts)),
                    subscribers, Tail(acts))

\* dataclasses.asdict of an AgentAction: a dict of the fields of the
\* dataclass (the history field task is no field of it)
asdict(action) ==
    [id |-> action.id, agent_type |-> action.agent_type,
     action_type |-> action.action_type, description |-> action.description,
     output_data |-> action.output_data,
     execution_time |-> action.execution_time, success |-> action.success,
     error_message |-> action.error_message]

\* an Optional argument that is given
Some(x) == [some |-> x]

\* TransparencyLogger.get_actions; agent_type and limit are None or Some(x),
\* and `if limit:` takes Some(0) for no limit
get_actions(lg, agent_type, limit) ==
    LET HasType(a) == a.agent_type = agent_type.some
        actions == IF agent_type # None THEN SelectSeq(lg.actions, HasType)
                   ELSE lg.actions
    IN  IF limit # None /\ limit.some # 0 /\ limit.some < Len(actions)
        THEN SubSeq(actions, Len(actions) - limit.some + 1, Len(actions))
        ELSE actions

\* TransparencyLogger.export_session_log (without exported_at)
export_session_log(lg) ==
    [session_id |-> lg.session_id,
     total_actions |-> Len(lg.actions),
     actions |-> [i \in 1..Len(lg.actions) |-> asdict(lg.actions[i])]]

(***************************************************************************)
(* SandboxedExecutor.                                                      *)
(***************************************************************************)
ExecutionResult(success, exit_code, stderr, execution_time) ==
    [success |-> success, exit_code |-> exit_code, stderr |-> stderr,
     execution_time |-> execution_time]

\* _execute_locally: the command was launched at start_time and the coroutine
\* resumes at end_time
\* _execute_locally that takes every exit of the command for a success
ExecuteLocallyIgnoringExitCode(behaviour, start_time, end_time, timeout) ==
    CASE behaviour \in {"exit0", "exit1"} ->
            ExecutionResult(TRUE, 0, "", end_time - start_time)
      [] behaviour = "overrun" -> ExecutionResult(FALSE, -1, "Command timed out", timeout)
      [] OTHER -> ExecutionResult(FALSE, -1, "error", end_time - start_time)

ExecuteLocally(behaviour, start_time, end_time, timeout) ==
    CASE behaviour = "exit0" -> ExecutionResult(TRUE, 0, "", end_time - start_time)
      [] behaviour = "exit1" -> ExecutionResult(FALSE, 1, "", end_time - start_time)
      [] behaviour = "overrun" -> ExecutionResult(FALSE, -1, "Command timed out", timeout)
      [] OTHER -> ExecutionResult(FALSE, -1, "error", end_time - start_time)

\* _execute_in_container with a container.wait that has no timeout: the
\* command runs to its end
ExecuteInContainerUntimed(behaviour, start_time, end_time, timeout) ==
    CASE behaviour \in {"exit0", "overrun"} ->
            ExecutionResult(TRUE, 0, "", end_time - start_time)
      [] behaviour = "exit1" -> ExecutionResult(FALSE, 1, "", end_time - start_time)
      [] OTHER -> ExecutionResult(FALSE, -1, "error", end_time - start_time)

\* _execute_in_container: container.wait raises when the timeout expires, and
\* the except branch reports the measured time
ExecuteInContainer(behaviour, start_time, end_time, timeout) ==
    CASE behaviour = "exit0" -> ExecutionResult(TRUE, 0, "", end_time - start_time)
      [] behaviour = "exit1" -> ExecutionResult(FALSE, 1, "", end_time - start_time)
      [] OTHER -> ExecutionResult(FALSE, -1, "error", end_time - start_time)

\* execute_command: the strategy is whatever docker_client is at the call
ExecuteCommand(docker, behaviour, start_time, end_time, timeout) ==
    IF docker THEN ExecuteInContainer(behaviour, start_time, end_time, timeout)
    ELSE ExecuteLocally(behaviour, start_time, end_time, timeout)

\* when the wait of a command with this behaviour can end, elapsed seconds
\* after the launch
CanEnd(behaviour, elapsed, timeout) ==
    CASE behaviour \in {"exit0", "exit1"} -> elapsed < timeout
      [] behaviour = "overrun" -> elapsed >= timeout
      [] OTHER -> TRUE

(***************************************************************************)
(* The strategies of the orchestrator.  A coroutine runs from one          *)
(* suspension to the next; such a run is a record                          *)
(*   steps : the AgentActions it logs, in order, with InvokeExecutor where *)
(*           it calls execute_command,                                     *)
(*   next  : "exec_wait" (suspended in execute_command), "sleep"           *)
(*           (suspended in asyncio.sleep), "return" or "raise",            *)
(*   value : the strategy's result, the partial result kept across the     *)
(*           suspension, or the exception.                                 *)
(***************************************************************************)
Run(steps, next, value) == [steps |-> steps, next |-> next, value |-> value]

\* _execute_openhands_task up to the call of execute_command
OpenhandsPerceivePlan ==
    <<AgentAction(PLANNING, "perceive", ""), AgentAction(PLANNING, "plan", "")>>

\* OpenhandsExecuteReflect with the bug of reflecting before the execute
\* action is logged
OpenhandsReflectExecute(execution_result) ==
    <<AgentAction(TESTING, "reflect", ""),
      [AgentAction(CODING, "execute", "") EXCEPT !.output_data = execution_result]>>

\* _execute_openhands_task after execute_command returned execution_result
OpenhandsExecuteReflect(execution_result) ==
    <<[AgentAction(CODING, "execute", "") EXCEPT !.output_data = execution_result],
      AgentAction(TESTING, "reflect", "")>>

OpenhandsResult(execution_result) ==
    [approach |-> "openhands", execution_result |-> execution_result]

\* ManusSpawnResearch with the bug of spawning the roles last to first
ManusSpawnReversed(assigned_agents) ==
    [i \in 1..Len(assigned_agents) |->
        AgentAction(assigned_agents[Len(assigned_agents) + 1 - i], "spawn",
                    assigned_agents[Len(assigned_agents) + 1 - i])]
    \o <<AgentAction(RESEARCH, "research", "")>>

\* _execute_manus_task up to asyncio.sleep
ManusSpawnResearch(assigned_agents) ==
    [i \in 1..Len(assigned_agents) |->
        AgentAction(assigned_agents[i], "spawn", assigned_agents[i])]
    \o <<AgentAction(RESEARCH, "research", "")>>

ManusResult(assigned_agents) ==
    [approach |-> "manus", agents_spawned |-> assigned_agents]

\* _execute_emergent_task, which never suspends
EmergentSteps ==
    <<AgentAction(PLANNING, "architecture_design", "")>>
    \o [i \in 1..Len(Components) |->
          AgentAction(IF Components[i] = "frontend" THEN UI_GENERATION ELSE BACKEND,
                      "generate_component", Components[i])]
    \o <<AgentAction(DEPLOYMENT, "prepare_deployment", "")>>

EmergentResult ==
    [approach |-> "emergent", generated_components |-> Components]

HybridSynthesis == AgentAction(ORCHESTRATOR, "hybrid_synthesis", "")

HybridResult(openhands_result, manus_result, emergent_result) ==
    [approach |-> "hybrid", openhands_result |-> openhands_result,
     manus_result |-> manus_result, emergent_result |-> emergent_result]

\* AfterExecute with the bug of a strategy that raises when execute_command
\* reports exit code -1
AfterExecuteRaising(task_context, execution_result) ==
    IF execution_result.exit_code = -1
    THEN Run(<<>>, "raise", "TimeoutError")
    ELSE IF task_context.execution_mode = OPENHANDS
    THEN Run(OpenhandsExecuteReflect(execution_result), "return",
             OpenhandsResult(execution_result))
    ELSE Run(OpenhandsExecuteReflect(execution_result)
                \o ManusSpawnResearch(task_context.assigned_agents),
             "sleep", OpenhandsResult(execution_result))

\* the strategy of task_context from the return of execute_command to its
\* next suspension: the rest of _execute_openhands_task and, in a hybrid
\* task, _execute_manus_task up to its sleep
AfterExecute(task_context, execution_result) ==
    IF task_context.execution_mode = OPENHANDS
    THEN Run(OpenhandsExecuteReflect(execution_result), "return",
             OpenhandsResult(execution_result))
    ELSE Run(OpenhandsExecuteReflect(execution_result)
                \o ManusSpawnResearch(task_context.assigned_agents),
             "sleep", OpenhandsResult(execution_result))

\* AfterSleep with the bug of a hybrid task that logs its synthesis before
\* the generative strategy has run
AfterSleepSynthesisFirst(task_context, openhands_result) ==
    IF task_context.execution_mode = MANUS
    THEN Run(<<>>, "return", ManusResult(task_context.assigned_agents))
    ELSE Run(<<HybridSynthesis>> \o EmergentSteps, "return",
             HybridResult(openhands_result,
                          ManusResult(task_context.assigned_agents),
                          EmergentResult))

\* the strategy from the end of asyncio.sleep to its return: the rest of
\* _execute_manus_task and, in a hybrid task, _execute_emergent_task and the
\* synthesis
AfterSleep(task_context, openhands_result) ==
    IF task_context.execution_mode = MANUS
    THEN Run(<<>>, "return", ManusResult(task_context.assigned_agents))
    ELSE Run(EmergentSteps \o <<HybridSynthesis>>, "return",
             HybridResult(openhands_result,
                          ManusResult(task_context.assigned_agents),
                          EmergentResult))

\* FromDispatch with the bug of a hybrid task that runs its generative
\* strategy although its isolated strategy raised, and raises afterwards
FromDispatchRunningOn(task_context, mkdir_fails, docker, blocking_result) ==
    CASE task_context.execution_mode = MANUS ->
            Run(ManusSpawnResearch(task_context.assigned_agents), "sleep", None)
      [] task_context.execution_mode = EMERGENT ->
            Run(EmergentSteps, "return", EmergentResult)
      [] OTHER ->
            IF mkdir_fails
            THEN IF task_context.execution_mode = HYBRID
                 THEN Run(OpenhandsPerceivePlan \o EmergentSteps, "raise", "OSError")
                 ELSE Run(OpenhandsPerceivePlan, "raise", "OSError")
            ELSE IF docker
            THEN LET rest == AfterExecute(task_context, blocking_result)
                 IN  Run(OpenhandsPerceivePlan \o <<InvokeExecutor>> \o rest.steps,
                         rest.next, rest.value)
            ELSE Run(OpenhandsPerceivePlan \o <<InvokeExecutor>>, "exec_wait", None)

\* the strategy from its dispatch in execute_task to its first suspension.
\* mkdir_fails: Path(workspace_path).mkdir raises (the path is a file, is
\* not writable, holds a NUL).  With a docker client execute_command blocks
\* the event loop and returns blocking_result without suspending.
FromDispatch(task_context, mkdir_fails, docker, blocking_result) ==
    CASE task_context.execution_mode = MANUS ->
            Run(ManusSpawnResearch(task_context.assigned_agents), "sleep", None)
      [] task_context.execution_mode = EMERGENT ->
            Run(EmergentSteps, "return", EmergentResult)
      [] OTHER ->
            IF mkdir_fails
            THEN Run(OpenhandsPerceivePlan, "raise", "OSError")
            ELSE IF docker
            THEN LET rest == AfterExecute(task_context, blocking_result)
                 IN  Run(OpenhandsPerceivePlan \o <<InvokeExecutor>> \o rest.steps,
                         rest.next, rest.value)
            ELSE Run(OpenhandsPerceivePlan \o <<InvokeExecutor>>, "exec_wait", None)

(***************************************************************************)
(* UnifiedAgentOrchestrator: metrics.                                      *)
(***************************************************************************)
\* _update_avg_execution_time, called after total_tasks was incremented
update_avg_execution_time(m, execution_time) ==
    LET total_tasks == m.total_tasks
        current_avg == m.avg_execution_time
    IN  [m EXCEPT !.avg_execution_time =
            Frac(current_avg.num * (total_tasks - 1) + execution_time * current_avg.den,
                 current_avg.den * total_tasks)]

\* MetricsOnSuccess with the bug of writing the counters back from a fresh
\* dict, which forgets the failures counted so far
MetricsOnSuccessResettingFailures(m, execution_time) ==
    update_avg_execution_time(
        [m EXCEPT !.total_tasks = @ + 1, !.successful_tasks = @ + 1,
                  !.failed_tasks = 0],
        execution_time)

\* execute_task, "Update metrics" of the try branch
MetricsOnSuccess(m, execution_time) ==
    update_avg_execution_time(
        [m EXCEPT !.total_tasks = @ + 1, !.successful_tasks = @ + 1],
        execution_time)

\* MetricsOnFailure with the bug of an except branch that does not count the
\* failure
MetricsOnFailureUncounted(m) ==
    [m EXCEPT !.total_tasks = @ + 1]

\* execute_task, "Update metrics" of the except branch
MetricsOnFailure(m) ==
    [m EXCEPT !.total_tasks = @ + 1, !.failed_tasks = @ + 1]

\* get_metrics with the bug of counting the sessions of the SessionManager
get_metrics_of_live_sessions ==
    [total_tasks |-> metrics.total_tasks,
     successful_tasks |-> metrics.successful_tasks,
     failed_tasks |-> metrics.failed_tasks,
     avg_execution_time |-> metrics.avg_execution_time,
     success_rate |-> IF metrics.total_tasks > 0
                      THEN Frac(metrics.successful_tasks * 100, metrics.total_tasks)
                      ELSE Frac(0, 1),
     active_sessions |-> Cardinality(DOMAIN active_sessions)]

\* get_metrics: what the call returns in the current state (without the
\* constant entries swe_bench_score, swe_bench_target and capabilities)
get_metrics ==
    [total_tasks |-> metrics.total_tasks,
     successful_tasks |-> metrics.successful_tasks,
     failed_tasks |-> metrics.failed_tasks,
     avg_execution_time |-> metrics.avg_execution_time,
     success_rate |-> IF metrics.total_tasks > 0
                      THEN Frac(metrics.successful_tasks * 100, metrics.total_tasks)
                      ELSE Frac(0, 1),
     active_sessions |-> Cardinality(DOMAIN transparency_loggers)]

(***************************************************************************)
(* UnifiedAgentOrchestrator.execute_task.  A call is a record              *)
(*   pc : "exec_wait", "sleep", "done" (returned) or "raised",             *)
(*   logger : the TransparencyLogger object the call took at its start,    *)
(*   steps : history, the action types the call logged and its             *)
(*           execute_command calls, in order,                              *)
(*   behaviour, executed : history, what the command of the call's         *)
(*           execute_command did and what execute_command returned.        *)
(***************************************************************************)
TaskContext(task_id, execution_mode, assigned_agents) ==
    [task_id |-> task_id, execution_mode |-> execution_mode,
     assigned_agents |-> assigned_agents]

\* RejectedCall with the bug of answering the unknown session with a failed
\* TaskResult instead of raising
RejectedCallReturning(session_id) ==
    [pc |-> "done", error |-> NoneStr, session_id |-> session_id,
     task_context |-> None, logger |-> 0, start_time |-> 0,
     launched |-> 0, openhands_result |-> None, exception |-> NoneStr,
     steps |-> <<>>, behaviour |-> NoneStr, executed |-> None,
     result |-> [success |-> FALSE, error |-> "SessionNotFound",
                 execution_time |-> 0, task_id |-> 0]]

\* the call that found no logger for session_id: raise ValueError, before
\* task_context is read
RejectedCall(session_id) ==
    [pc |-> "raised", error |-> "SessionNotFound", session_id |-> session_id,
     task_context |-> None, logger |-> 0, start_time |-> 0,
     launched |-> 0, openhands_result |-> None, exception |-> NoneStr,
     steps |-> <<>>, behaviour |-> NoneStr, executed |-> None, result |-> None]

\* the call keeping the first logger ever constructed instead of the logger
\* of its session
StartedCallOnFirstLogger(session_id, task_context, logger, start_time) ==
    [pc |-> "running", error |-> NoneStr, session_id |-> session_id,
     task_context |-> task_context, logger |-> 1, start_time |-> start_time,
     launched |-> 0, openhands_result |-> None, exception |-> NoneStr,
     steps |-> <<"task_start">>, behaviour |-> NoneStr, executed |-> None,
     result |-> None]

\* the call after transparency_logger.log_action(start_action)
StartedCall(session_id, task_context, logger, start_time) ==
    [pc |-> "running", error |-> NoneStr, session_id |-> session_id,
     task_context |-> task_context, logger |-> logger, start_time |-> start_time,
     launched |-> 0, openhands_result |-> None, exception |-> NoneStr,
     steps |-> <<"task_start">>, behaviour |-> NoneStr, executed |-> None,
     result |-> None]

\* the history of the call's execute_command
Executed(call, behaviour, execution_result) ==
    [call EXCEPT !.behaviour = behaviour, !.executed = execution_result]

TaskStart == AgentAction(ORCHESTRATOR, "task_start", "")

TaskComplete(result, execution_time) ==
    [AgentAction(ORCHESTRATOR, "task_complete", "") EXCEPT
        !.output_data = result, !.execution_time = execution_time]

\* TaskFailed with the bug of logging the failure under the action type of a
\* completion
TaskFailedAsComplete(e, execution_time) ==
    [AgentAction(ORCHESTRATOR, "task_complete", e) EXCEPT
        !.execution_time = execution_time, !.success = FALSE, !.error_message = e]

TaskFailed(e, execution_time) ==
    [AgentAction(ORCHESTRATOR, "task_failed", e) EXCEPT
        !.execution_time = execution_time, !.success = FALSE, !.error_message = e]

\* the dict execute_task returns from its try branch
SuccessResult(task_context, result, execution_time) ==
    [success |-> TRUE, result |-> result, execution_time |-> execution_time,
     task_id |-> task_context.task_id]

\* the dict execute_task returns from its except branch
FailureResult(task_context, e, execution_time) ==
    [success |-> FALSE, error |-> e, execution_time |-> execution_time,
     task_id |-> task_context.task_id]

StepNames(steps) == [i \in 1..Len(steps) |-> steps[i].action_type]

IsLogged(step) == step # InvokeExecutor

\* TaskBoundary with the bug of an except branch that logs the failure and
\* raises the exception again
TaskBoundaryReraising(call, run, m, end_time) ==
    LET execution_time == end_time - call.start_time
        logged == SelectSeq(run.steps, IsLogged)
        steps == call.steps \o StepNames(run.steps)
    IN  CASE run.next = "return" ->
                [call |-> [call EXCEPT !.pc = "done",
                              !.steps = steps \o <<"task_complete">>,
                              !.result = SuccessResult(call.task_context, run.value,
                                                       execution_time)],
                 logged |-> logged \o <<TaskComplete(run.value, execution_time)>>,
                 metrics |-> MetricsOnSuccess(m, execution_time)]
          [] run.next = "raise" ->
                [call |-> [call EXCEPT !.pc = "raised",
                              !.error = run.value,
                              !.exception = run.value,
                              !.steps = steps \o <<"task_failed">>],
                 logged |-> logged \o <<TaskFailed(run.value, execution_time)>>,
                 metrics |-> MetricsOnFailure(m)]
          [] OTHER ->
                [call |-> [call EXCEPT !.pc = run.next, !.steps = steps,
                              !.launched = end_time,
                              !.openhands_result = run.value],
                 logged |-> logged,
                 metrics |-> m]

\* execute_task around one run of its strategy that ended at end_time: what
\* the call becomes, what was logged and the metrics.  A strategy that
\* returned is followed by the rest of the try branch, one that raised by the
\* except branch, and a suspended one leaves the call waiting.
TaskBoundary(call, run, m, end_time) ==
    LET execution_time == end_time - call.start_time
        logged == SelectSeq(run.steps, IsLogged)
        steps == call.steps \o StepNames(run.steps)
    IN  CASE run.next = "return" ->
                [call |-> [call EXCEPT !.pc = "done",
                              !.steps = steps \o <<"task_complete">>,
                              !.result = SuccessResult(call.task_context, run.value,
                                                       execution_time)],
                 logged |-> logged \o <<TaskComplete(run.value, execution_time)>>,
                 metrics |-> MetricsOnSuccess(m, execution_time)]
          [] run.next = "raise" ->
                [call |-> [call EXCEPT !.pc = "done",
                              !.exception = run.value,
                              !.steps = steps \o <<"task_failed">>,
                              !.result = FailureResult(call.task_context, run.value,
                                                       execution_time)],
                 logged |-> logged \o <<TaskFailed(run.value, execution_time)>>,
                 metrics |-> MetricsOnFailure(m)]
          [] OTHER ->
                [call |-> [call EXCEPT !.pc = run.next, !.steps = steps,
                              !.launched = end_time,
                              !.openhands_result = run.value],
                 logged |-> logged,
                 metrics |-> m]

\* the AgentActions as constructed by call t, which constructed `before`
\* actions earlier.  Each draws a fresh uuid4, modelled as a value no other
\* action has: the call and the position among the call's actions.  task is a
\* history field naming the call.
Stamp(actions, before, t) ==
    [i \in 1..Len(actions) |->
        [id |-> <<t, before + i>>, task |-> t,
         agent_type |-> actions[i].agent_type,
         action_type |-> actions[i].action_type,
         description |-> actions[i].description,
         output_data |-> actions[i].output_data,
         execution_time |-> actions[i].execution_time,
         success |-> actions[i].success,
         error_message |-> actions[i].error_message]]

(***************************************************************************)
(* SessionManager storage.                                                 *)
(***************************************************************************)
\* json.dumps in _save_session takes a SessionState whose transparency_log is
\* empty; an AgentAction holds an AgentType and a datetime, which it rejects
Serializable(session) == session.transparency_log = <<>>

\* what <id>.json holds when json.dumps raised after the file was opened 'w'
EmptyFile == [empty_file |-> TRUE]

\* _save_session: the document is keyed by session.session_id
save_session(st, session) ==
    [id \in DOMAIN st \cup {session.session_id} |->
        IF id = session.session_id
        THEN IF Serializable(session) THEN session ELSE EmptyFile
        ELSE st[id]]

\* _load_session: None when the file is missing or cannot be parsed
load_session(st, session_id) ==
    IF session_id \in DOMAIN st /\ st[session_id] # EmptyFile
    THEN st[session_id]
    ELSE None

\* _capture_workspace of a workspace directory that holds no file
EmptySnapshot == [files |-> <<>>, structure |-> <<>>]

(***************************************************************************)
(* Outcomes of the session-management calls, as their caller sees them.    *)
(***************************************************************************)
NoCall == [op |-> "none", outcome |-> "none", error |-> NoneStr, value |-> None]

Returned(op, value) ==
    [op |-> op, outcome |-> "returned", error |-> NoneStr, value |-> value]

Raised(op, error) ==
    [op |-> op, outcome |-> "raised", error |-> error, value |-> None]

Bool(b) == [bool |-> b]

\* No execute_task call is in flight.  The model takes a session-management
\* call that ends without any effect (it raises, or returns False) in such a
\* state only: the call reads nothing a call in flight writes, and writes
\* nothing.
Quiescent == \A t \in DOMAIN tasks : tasks[t].pc \in {"done", "raised"}

(***************************************************************************)
(* The workspace directories that checkpoints capture and restore.  A      *)
(* directory tree maps each relative path to what is there: nothing, a     *)
(* directory, or a regular file with its bytes, the size stat() reports    *)
(* and the error that opening or reading it raises, if any.  A file far    *)
(* larger than its bytes field stands for one whose content is not spelt   *)
(* out.                                                                    *)
(***************************************************************************)
\* 1024*1024, the size from which on a file is not read
MaxFileSize == 1048576

Paths == {"a.txt", "d", "d/b.txt"}

\* file_path.parent, for the paths below the root
Parents == [p \in {"d/b.txt"} |-> "d"]

Absent == [kind |-> "absent"]

Directory == [kind |-> "dir"]

File(bytes, st_size, error) ==
    [kind |-> "file", bytes |-> bytes, st_size |-> st_size, error |-> error]

TextFile(bytes) == File(bytes, Len(bytes), "none")

EmptyDirectory == [p \in Paths |-> Absent]

\* the regular files a workspace is drawn from: text with and without line
\* endings, undecodable bytes, sizes at and just below the threshold, and
\* files whose open() or read() raises
SourceFiles ==
    {TextFile(<<"h">>), TextFile(<<"h", "\n">>), TextFile(<<"h", "\r", "\n">>),
     TextFile(<<"0xFF">>),
     File(<<"h">>, MaxFileSize, "none"), File(<<"h">>, MaxFileSize - 1, "none"),
     File(<<"h">>, 1, "PermissionError"), File(<<"h">>, 1, "OSError")}

WellFormed(fs) ==
    \A p \in DOMAIN Parents : fs[p] # Absent => fs[Parents[p]] = Directory

Workspaces ==
    {fs \in [Paths -> {Absent, Directory} \cup SourceFiles] :
        /\ WellFormed(fs)
        /\ fs["a.txt"] # Directory}

Targets ==
    {fs \in [Paths -> {Absent, Directory, TextFile(<<"o">>)}] : WellFormed(fs)}

\* workspace.rglob("*"): every entry below the root
rglob(fs) == {p \in Paths : fs[p] # Absent}

\* the orders in which rglob can yield the entries: a directory before
\* what it contains
Orders(fs) ==
    {order \in [1..Cardinality(rglob(fs)) -> rglob(fs)] :
        /\ \A i, j \in DOMAIN order : i # j => order[i] # order[j]
        /\ \A i, j \in DOMAIN order :
              (order[j] \in DOMAIN Parents /\ order[i] = Parents[order[j]]) => i < j}

\* text mode with newline=None: "\r\n" and "\r" are read as "\n"
RECURSIVE universal_newlines(_)
universal_newlines(bytes) ==
    IF bytes = <<>> THEN <<>>
    ELSE IF Head(bytes) = "\r"
         THEN <<"\n">> \o universal_newlines(
                  IF Len(bytes) > 1 /\ bytes[2] = "\n" THEN Tail(Tail(bytes))
                  ELSE Tail(bytes))
         ELSE <<Head(bytes)>> \o universal_newlines(Tail(bytes))

\* os.linesep
linesep == <<"\n">>

\* text mode on writing: "\n" is written as os.linesep
RECURSIVE write_newlines(_)
write_newlines(content) ==
    IF content = <<>> THEN <<>>
    ELSE (IF Head(content) = "\n" THEN linesep ELSE <<Head(content)>>)
         \o write_newlines(Tail(content))

\* async with aiofiles.open(file_path, 'r', encoding='utf-8') as f:
\*     content = await f.read()
read(file) ==
    IF file.error # "none" THEN Raised("read", file.error)
    ELSE IF \E i \in DOMAIN file.bytes : file.bytes[i] = "0xFF"
         THEN Raised("read", "UnicodeDecodeError")
         ELSE Returned("read", universal_newlines(file.bytes))

\* the first loop of _capture_workspace, from entry i of order on: the
\* files read so far, and whether an exception left the loop
RECURSIVE capture_files(_, _, _, _)
capture_files(fs, order, i, files) ==
    IF i > Len(order) THEN [files |-> files, raised |-> FALSE]
    ELSE LET file_path == order[i]
             item == fs[file_path]
         IN  IF item.kind = "file" /\ item.st_size < MaxFileSize
             THEN LET content == read(item)
                  IN  IF content.outcome = "raised"
                      THEN IF content.error \in {"UnicodeDecodeError", "PermissionError"}
                           THEN capture_files(fs, order, i + 1, files)
                           ELSE [files |-> files, raised |-> TRUE]
                      ELSE capture_files(fs, order, i + 1,
                               Append(files, [path |-> file_path,
                                              content |-> content.value]))
             ELSE capture_files(fs, order, i + 1, files)

\* the second loop of _capture_workspace
structure_of(fs, order) ==
    [i \in DOMAIN order |->
        [path |-> order[i], is_dir |-> fs[order[i]].kind = "dir",
         size |-> IF fs[order[i]].kind = "file" THEN fs[order[i]].st_size ELSE 0]]

\* SessionManager._capture_workspace: the outer except ends the capture
\* where the exception arose and returns what the snapshot holds by then
capture_workspace(fs, order) ==
    LET loop == capture_files(fs, order, 1, <<>>)
    IN  [files |-> loop.files,
         structure |-> IF loop.raised THEN <<>> ELSE structure_of(fs, order)]

\* file_path.parent.mkdir(parents=True, exist_ok=True) raises when the
\* parent is a regular file
mkdir_raises(fs, path) ==
    path \in DOMAIN Parents /\ fs[Parents[path]].kind = "file"

mkdir(fs, path) ==
    IF path \in DOMAIN Parents THEN [fs EXCEPT ![Parents[path]] = Directory] ELSE fs

\* aiofiles.open(file_path, 'w', encoding='utf-8') raises on a directory
\* and where the system refuses (failing)
open_raises(fs, path, failing) == fs[path].kind = "dir" \/ path \in failing

\* await f.write(content)
write(fs, path, content) ==
    [fs EXCEPT ![path] = TextFile(write_newlines(content))]

\* the loop of _restore_workspace, from entry i of files on, inside its one
\* try: the first exception ends it
RECURSIVE restore_files(_, _, _, _)
restore_files(fs, files, i, failing) ==
    IF i > Len(files) THEN [target |-> fs, raised |-> None]
    ELSE LET relative_path == files[i].path
         IN  IF mkdir_raises(fs, relative_path)
             THEN [target |-> fs, raised |-> Some(relative_path)]
             ELSE IF open_raises(mkdir(fs, relative_path), relative_path, failing)
                  THEN [target |-> mkdir(fs, relative_path),
                        raised |-> Some(relative_path)]
                  ELSE restore_files(write(mkdir(fs, relative_path), relative_path,
                                           files[i].content),
                                     files, i + 1, failing)

\* a restore that empties the target directory first
restore_workspace_mirroring(snapshot, fs, failing) ==
    restore_files(EmptyDirectory, snapshot.files, 1, failing)

\* SessionManager._restore_workspace
restore_workspace(snapshot, fs, failing) ==
    restore_files(fs, snapshot.files, 1, failing)

(***************************************************************************)
(* Initial state: the orchestrator as __init__ leaves it, an empty storage *)
(* directory.                                                              *)
(***************************************************************************)
Init ==
    /\ now = 0
    /\ ticks = 0
    /\ docker_client = FALSE
    /\ active_sessions = <<>>
    /\ storage = <<>>
    /\ loggers = <<>>
    /\ transparency_loggers = <<>>
    /\ metrics = [total_tasks |-> 0, successful_tasks |-> 0, failed_tasks |-> 0,
                  avg_execution_time |-> Frac(0, 1)]
    /\ tasks = <<>>
    /\ last_call = NoCall
    /\ callbacks = <<>>
    /\ ready = <<>>
    /\ handling = {}
    /\ executions = <<>>
    /\ workspace = EmptyDirectory
    /\ target_workspace = EmptyDirectory
    /\ captured = None
    /\ restored = NoCall

(***************************************************************************)
(* Environment.                                                            *)
(***************************************************************************)
\* the wall clock advances
Tick(d) ==
    /\ last_call = NoCall
    /\ now' = now + d
    /\ ticks' = ticks + 1
    /\ UNCHANGED <<workspaces, notifications, executions, docker_client, active_sessions, storage, loggers,
                   transparency_loggers, metrics, tasks, last_call>>

(***************************************************************************)
(* SandboxedExecutor.initialize: docker.from_env() succeeds (available) or *)
(* raises, and then docker_client keeps the value it had.                  *)
(***************************************************************************)
Initialize(available) ==
    /\ last_call = NoCall
    /\ docker_client' = IF available THEN TRUE ELSE docker_client
    /\ UNCHANGED <<workspaces, notifications, executions, now, ticks, active_sessions, storage, loggers,
                   transparency_loggers, metrics, tasks, last_call>>

(***************************************************************************)
(* SessionManager.create_session, called on orchestrator.session_manager.  *)
(***************************************************************************)
SMCreateSession(user_id) ==
    /\ last_call = NoCall
    /\ Cardinality(DOMAIN active_sessions) < MaxSessions
    /\ LET session_id == SessionId(Cardinality(DOMAIN active_sessions) + 1)
           session_state == SessionState(session_id, user_id, EmptyDict, <<>>, NoneStr)
       IN  /\ active_sessions' =
                [id \in DOMAIN active_sessions \cup {session_id} |->
                    IF id = session_id THEN session_state ELSE active_sessions[id]]
           /\ storage' = save_session(storage, session_state)
           /\ last_call' = Returned("SessionManager.create_session", session_id)
    /\ UNCHANGED <<workspaces, notifications, executions, now, ticks, docker_client, loggers, transparency_loggers,
                   metrics, tasks>>

(***************************************************************************)
(* UnifiedAgentOrchestrator.create_session.  The argument                  *)
(* str(self.workspace_root / session_id) is evaluated before the call it   *)
(* is passed to, and session_id is the local that the call's result is     *)
(* about to be assigned to: reading it raises UnboundLocalError.           *)
(***************************************************************************)
SessionIdIsBound == FALSE

OrchCreateSession(user_id) ==
    IF SessionIdIsBound
    THEN /\ last_call = NoCall
         /\ Cardinality(DOMAIN active_sessions) < MaxSessions
         /\ LET session_id == SessionId(Cardinality(DOMAIN active_sessions) + 1)
                session_state == SessionState(session_id, user_id, EmptyDict, <<>>, NoneStr)
            IN  /\ active_sessions' =
                     [id \in DOMAIN active_sessions \cup {session_id} |->
                         IF id = session_id THEN session_state
                         ELSE active_sessions[id]]
                /\ storage' = save_session(storage, session_state)
                /\ loggers' = Append(loggers, TransparencyLogger(session_id))
                /\ transparency_loggers' =
                     [id \in DOMAIN transparency_loggers \cup {session_id} |->
                         IF id = session_id THEN Len(loggers) + 1
                         ELSE transparency_loggers[id]]
                /\ last_call' = Returned("create_session", session_id)
         /\ UNCHANGED <<workspaces, notifications, executions, now, ticks, docker_client, metrics, tasks>>
    ELSE /\ last_call = NoCall
         /\ Quiescent
         /\ last_call' = Raised("create_session", "UnboundLocalError")
         /\ UNCHANGED <<workspaces, notifications, executions, now, ticks, docker_client, active_sessions, storage,
                        loggers, transparency_loggers, metrics, tasks>>

(***************************************************************************)
(* UnifiedAgentOrchestrator.create_restore_point ->                        *)
(* SessionManager.create_restore_point.                                    *)
(***************************************************************************)
CheckpointDocs == {id \in DOMAIN storage : id.restore # NotRestore}

\* a create_restore_point that moves the session's log into the checkpoint
CreateRestorePointRotatingLog(session_id, checkpoint_name) ==
    /\ last_call = NoCall
    /\ IF session_id \notin DOMAIN active_sessions
       THEN /\ Quiescent
            /\ last_call' = Raised("create_restore_point", "SessionNotFound")
            /\ UNCHANGED storage
       ELSE LET session == active_sessions[session_id]
                restore_point ==
                    SessionState(CheckpointId(session_id, now), session.user_id,
                                 EmptySnapshot, session.transparency_log,
                                 checkpoint_name)
            IN  /\ \/ restore_point.session_id \in DOMAIN storage
                   \/ Cardinality(CheckpointDocs) < MaxCheckpoints
                /\ storage' = save_session(storage, restore_point)
                /\ last_call' = Returned("create_restore_point",
                                         restore_point.session_id)
    /\ loggers' = [l \in DOMAIN loggers |->
                       IF /\ session_id \in DOMAIN transparency_loggers
                          /\ l = transparency_loggers[session_id]
                       THEN [loggers[l] EXCEPT !.actions = <<>>]
                       ELSE loggers[l]]
    /\ UNCHANGED <<workspaces, notifications, executions, now, ticks, docker_client, active_sessions,
                   transparency_loggers, metrics, tasks>>

CreateRestorePoint(session_id, checkpoint_name) ==
    /\ last_call = NoCall
    /\ IF session_id \notin DOMAIN active_sessions
       THEN /\ Quiescent
            /\ last_call' = Raised("create_restore_point", "SessionNotFound")
            /\ UNCHANGED storage
       ELSE LET session == active_sessions[session_id]
                restore_point ==
                    SessionState(CheckpointId(session_id, now), session.user_id,
                                 EmptySnapshot, session.transparency_log,
                                 checkpoint_name)
            IN  /\ \/ restore_point.session_id \in DOMAIN storage
                   \/ Cardinality(CheckpointDocs) < MaxCheckpoints
                /\ storage' = save_session(storage, restore_point)
                /\ last_call' = Returned("create_restore_point",
                                         restore_point.session_id)
    /\ UNCHANGED <<workspaces, notifications, executions, now, ticks, docker_client, active_sessions, loggers,
                   transparency_loggers, metrics, tasks>>

(***************************************************************************)
(* UnifiedAgentOrchestrator.restore_session ->                             *)
(* SessionManager.restore_from_checkpoint.                                 *)
(***************************************************************************)
RestoreSession(restore_point_id, target_session_id) ==
    LET restored_state == load_session(storage, restore_point_id)
    IN  IF restored_state = None
        THEN /\ last_call = NoCall
             /\ Quiescent
             /\ last_call' = Returned("restore_session", Bool(FALSE))
             /\ UNCHANGED <<workspaces, notifications, executions, now, ticks, docker_client, active_sessions, storage,
                            loggers, transparency_loggers, metrics, tasks>>
        ELSE \/ /\ last_call = NoCall
                /\ loggers' = Append(loggers,
                                     log_all(TransparencyLogger(target_session_id),
                                             restored_state.transparency_log))
                /\ transparency_loggers' =
                       [id \in DOMAIN transparency_loggers \cup {target_session_id} |->
                           IF id = target_session_id THEN Len(loggers) + 1
                           ELSE transparency_loggers[id]]
                /\ last_call' = Returned("restore_session", Bool(TRUE))
                /\ UNCHANGED <<workspaces, notifications, executions, now, ticks, docker_client, active_sessions, storage,
                               metrics, tasks>>
             \* target.mkdir of _restore_workspace raises (the target path
             \* is a file, is too long, is not writable): the except branch
             \* returns False before the registry is assigned
             \/ /\ last_call = NoCall
                /\ Quiescent
                /\ last_call' = Returned("restore_session", Bool(FALSE))
                /\ UNCHANGED <<workspaces, notifications, executions, now, ticks, docker_client, active_sessions, storage,
                               loggers, transparency_loggers, metrics, tasks>>

(***************************************************************************)
(* UnifiedAgentOrchestrator.execute_task, from the call to the first       *)
(* suspension of its strategy (or to its return when nothing suspends).    *)
(* behaviour is what the sandboxed command does when execute_command       *)
(* blocks on the container; the clock then moves by a whole timeout when   *)
(* the command overruns.                                                   *)
(***************************************************************************)
\* UnifiedAgentOrchestrator.get_transparency_log; agent_type is None or
\* Some(x)
get_transparency_log(session_id, agent_type) ==
    IF session_id \notin DOMAIN transparency_loggers THEN <<>>
    ELSE LET actions == get_actions(loggers[transparency_loggers[session_id]],
                                    agent_type, None)
         IN  [i \in 1..Len(actions) |-> asdict(actions[i])]

\* the notification half of the log_action calls on appended
Notified(lg, appended) ==
    /\ \E loop \in {notify_all([callbacks |-> callbacks, ready |-> ready],
                                lg.subscribers, appended)} :
          /\ callbacks' = loop.callbacks
          /\ ready' = loop.ready
    /\ UNCHANGED handling

Blocking(execution_mode, mkdir_fails) ==
    docker_client /\ execution_mode \in {OPENHANDS, HYBRID} /\ ~mkdir_fails

ExecuteTask(session_id, execution_mode, assigned_agents, mkdir_fails, behaviour) ==
    /\ last_call = NoCall
    /\ Len(tasks) < MaxTasks
    /\ LET t == Len(tasks) + 1
           task_context == TaskContext(t, execution_mode, assigned_agents)
       IN  IF session_id \notin DOMAIN transparency_loggers
           THEN /\ tasks' = Append(tasks, RejectedCall(session_id))
                /\ UNCHANGED <<notifications, executions, now, ticks, loggers, metrics>>
           ELSE LET transparency_logger == transparency_loggers[session_id]
                    start_time == now
                    overruns == Blocking(execution_mode, mkdir_fails)
                                    /\ behaviour = "overrun"
                    end_time == IF overruns THEN now + DefaultTimeout ELSE now
                    execution_result ==
                        ExecuteCommand(docker_client, behaviour, start_time,
                                       end_time, DefaultTimeout)
                    run == FromDispatch(task_context, mkdir_fails, docker_client,
                                        execution_result)
                    started == StartedCall(session_id, task_context,
                                           transparency_logger, start_time)
                    out == TaskBoundary(
                              IF Blocking(execution_mode, mkdir_fails)
                              THEN Executed(started, behaviour, execution_result)
                              ELSE started,
                              run, metrics, end_time)
                    appended == Stamp(<<TaskStart>> \o out.logged, 0, t)
                IN  /\ overruns => ticks < MaxTicks
                    /\ now' = end_time
                    /\ ticks' = IF overruns THEN ticks + 1 ELSE ticks
                    /\ loggers' = [loggers EXCEPT ![transparency_logger] =
                                       log_all(@, appended)]
                    /\ Notified(loggers[transparency_logger], appended)
                    /\ metrics' = out.metrics
                    /\ tasks' = Append(tasks, out.call)
    /\ UNCHANGED <<workspaces, docker_client, active_sessions, storage, transparency_loggers,
                   last_call, executions>>

\* call t resumes with run at the current time
Resume(t, call, run) ==
    \E out \in {TaskBoundary(call, run, metrics, now)} :
        LET appended == Stamp(out.logged,
                              Cardinality({i \in DOMAIN tasks[t].steps :
                                  tasks[t].steps[i] # "execute_command"}), t)
        IN  /\ loggers' = [loggers EXCEPT ![tasks[t].logger] =
                               log_all(@, appended)]
            /\ Notified(loggers[tasks[t].logger], appended)
            /\ metrics' = out.metrics
            /\ tasks' = [tasks EXCEPT ![t] = out.call]
            /\ UNCHANGED <<workspaces, now, ticks, docker_client, active_sessions, storage,
                           transparency_loggers, last_call, executions>>

(***************************************************************************)
(* The wait of _execute_locally ends: the command exited, the timeout      *)
(* expired or the executor caught an exception.                            *)
(***************************************************************************)
ExecReturn(t, behaviour) ==
    /\ last_call = NoCall
    /\ t \in DOMAIN tasks
    /\ tasks[t].pc = "exec_wait"
    /\ CanEnd(behaviour, now - tasks[t].launched, DefaultTimeout)
    /\ \E execution_result \in
              {ExecuteLocally(behaviour, tasks[t].launched, now, DefaultTimeout)} :
          \E call \in {Executed(tasks[t], behaviour, execution_result)},
             run \in {AfterExecute(tasks[t].task_context, execution_result)} :
               Resume(t, call, run)

(***************************************************************************)
(* asyncio.sleep(0.1) of _execute_manus_task ends.                         *)
(***************************************************************************)
SleepReturn(t) ==
    /\ last_call = NoCall
    /\ t \in DOMAIN tasks
    /\ tasks[t].pc = "sleep"
    /\ \E run \in {AfterSleep(tasks[t].task_context,
                               tasks[t].openhands_result)} :
          Resume(t, tasks[t], run)

(***************************************************************************)
(* The caller of the session-management call that has just ended takes     *)
(* what the call returned or raised.                                       *)
(***************************************************************************)
CallEnds ==
    /\ last_call # NoCall
    /\ last_call' = NoCall
    /\ UNCHANGED <<workspaces, notifications, executions, now, ticks, docker_client, active_sessions, storage, loggers,
                   transparency_loggers, metrics, tasks>>

(***************************************************************************)
(* TransparencyLogger.subscribe on the logger registered for session_id,   *)
(* as the websocket endpoint of unified_api.py calls it.                   *)
(***************************************************************************)
Subscribe(session_id, kind) ==
    /\ last_call = NoCall
    /\ session_id \in DOMAIN transparency_loggers
    /\ Len(callbacks) < MaxSubscribers
    /\ callbacks' = Append(callbacks, Callback(kind))
    /\ loggers' = [loggers EXCEPT ![transparency_loggers[session_id]].subscribers =
                       Append(@, Len(callbacks) + 1)]
    /\ UNCHANGED <<workspaces, now, ticks, docker_client, active_sessions, storage,
                   transparency_loggers, metrics, tasks, last_call, ready,
                   handling, executions>>

(***************************************************************************)
(* The event loop runs the oldest ready notification task up to its first  *)
(* await, or to the exception that ends it.                                *)
(***************************************************************************)
NotifyStart ==
    /\ last_call = NoCall
    /\ ready # <<>>
    /\ LET task == Head(ready)
       IN  /\ callbacks' = [callbacks EXCEPT ![task.callback].received =
                                Append(@, task.action)]
           /\ ready' = Tail(ready)
           /\ handling' = IF callbacks[task.callback].kind = "coroutine"
                          THEN handling \cup {task} ELSE handling
    /\ UNCHANGED <<workspaces, now, ticks, docker_client, active_sessions, storage, loggers,
                   transparency_loggers, metrics, tasks, last_call, executions>>

\* what a suspended notification task awaited is done, and the task ends
NotifyFinish(task) ==
    /\ last_call = NoCall
    /\ task \in handling
    /\ handling' = handling \ {task}
    /\ UNCHANGED <<workspaces, now, ticks, docker_client, active_sessions, storage, loggers,
                   transparency_loggers, metrics, tasks, last_call, callbacks,
                   ready, executions>>

(***************************************************************************)
(* SandboxedExecutor.execute_command called on the executor, with timeout  *)
(* seconds for a command with this behaviour.  With a docker client the    *)
(* call has no await: it blocks for the launch of the container and, when  *)
(* the command overruns, for the whole timeout of container.wait.  Without *)
(* one it is suspended in asyncio.wait_for.                                *)
(***************************************************************************)
Execution(strategy, timeout, behaviour, launch, start_time) ==
    [strategy |-> strategy, timeout |-> timeout, behaviour |-> behaviour,
     launch |-> launch, start_time |-> start_time, pc |-> "wait",
     outcome |-> NoCall, returned_at |-> 0,
     running |-> FALSE,    \* the process or container of the call runs
     tracked |-> FALSE]    \* active_containers holds the call's container

\* whether the process or container of a call that was launched still runs
\* when the call returns.  A command that exited runs no more.  On a
\* timeout _execute_locally kills its process (line 214);
\* _execute_in_container stops nothing: its except and finally branches
\* build the result and drop the active_containers entry (170-181), and
\* remove=True discards the container only once it exits
LeftRunning(strategy, behaviour) ==
    strategy = "container" /\ behaviour = "overrun"

\* what execute_command leaves in self.docker_client: no branch of it or of
\* the strategies assigns it
ClientAfterDroppedOnFailure(docker, behaviour) ==
    docker /\ behaviour # "infra_error"

ClientAfter(docker, behaviour) == docker

\* execute_command with the try of lines 123-136 left out and the strategies
\* raising what they catch
execute_command_propagating(docker, behaviour, start_time, end_time, timeout) ==
    IF behaviour = "infra_error" THEN Raised("execute_command", "error")
    ELSE Returned("execute_command",
                  ExecuteCommand(docker, behaviour, start_time, end_time, timeout))

\* what execute_command hands to its caller
execute_command(docker, behaviour, start_time, end_time, timeout) ==
    Returned("execute_command",
             ExecuteCommand(docker, behaviour, start_time, end_time, timeout))

CallExecuteCommand(timeout, behaviour, launch) ==
    /\ last_call = NoCall
    /\ Len(executions) < MaxExecutions
    /\ IF docker_client
       THEN LET blocked == launch + (IF behaviour = "overrun" THEN timeout ELSE 0)
                call == Execution("container", timeout, behaviour, launch, now)
            IN  /\ ticks + blocked <= MaxExecTicks
                /\ now' = now + blocked
                /\ ticks' = ticks + blocked
                /\ executions' = Append(executions,
                      [call EXCEPT
                          !.pc = "done",
                          !.outcome = execute_command(TRUE, behaviour, now,
                                                      now + blocked, timeout),
                          !.returned_at = now + blocked,
                          !.running = LeftRunning("container", behaviour)])
       ELSE /\ launch = 0
            /\ executions' = Append(executions,
                  [Execution("local", timeout, behaviour, 0, now) EXCEPT
                      !.running = behaviour # "infra_error"])
            /\ UNCHANGED <<now, ticks>>
    /\ docker_client' = ClientAfter(docker_client, behaviour)
    /\ UNCHANGED <<workspaces, notifications, active_sessions, storage, loggers,
                   transparency_loggers, metrics, tasks, last_call>>

\* the wait of _execute_locally of execution e ends
WaitForReturn(e) ==
    /\ last_call = NoCall
    /\ e \in DOMAIN executions
    /\ executions[e].pc = "wait"
    /\ CanEnd(executions[e].behaviour, now - executions[e].start_time,
              executions[e].timeout)
    /\ executions' = [executions EXCEPT
          ![e].pc = "done",
          ![e].outcome = execute_command(FALSE, executions[e].behaviour,
                                         executions[e].start_time, now,
                                         executions[e].timeout),
          ![e].returned_at = now,
          ![e].running = LeftRunning("local", executions[e].behaviour)]
    /\ docker_client' = ClientAfter(docker_client, executions[e].behaviour)
    /\ UNCHANGED <<workspaces, notifications, now, ticks, active_sessions, storage, loggers,
                   transparency_loggers, metrics, tasks, last_call>>

\* the command of a container that a returned call left running exits, and
\* the docker daemon removes the container
ContainerExits(e) ==
    /\ last_call = NoCall
    /\ e \in DOMAIN executions
    /\ executions[e].pc = "done"
    /\ executions[e].running
    /\ executions' = [executions EXCEPT ![e].running = FALSE]
    /\ UNCHANGED <<workspaces, notifications, now, ticks, docker_client, active_sessions,
                   storage, loggers, transparency_loggers, metrics, tasks,
                   last_call>>

(***************************************************************************)
(* SessionManager._capture_workspace on the workspace, rglob yielding the  *)
(* entries in order.                                                       *)
(***************************************************************************)
CaptureWorkspace(order) ==
    /\ captured = None
    /\ captured' = capture_workspace(workspace, order)
    /\ UNCHANGED <<workspace, target_workspace, restored, notifications, executions, now, ticks,
                   docker_client, active_sessions, storage, loggers,
                   transparency_loggers, metrics, tasks, last_call>>

(***************************************************************************)
(* SessionManager._restore_workspace of the captured snapshot into the     *)
(* target directory; opening the paths of failing for writing raises.      *)
(* restored keeps the directory as the call found it, the paths that       *)
(* refused and the entry whose exception the call logged.                  *)
(***************************************************************************)
RestoreWorkspace(failing) ==
    /\ captured # None
    /\ restored = NoCall
    /\ \E out \in {restore_workspace(captured, target_workspace, failing)} :
          /\ target_workspace' = out.target
          /\ restored' = Returned("_restore_workspace",
                                  [before |-> target_workspace, failing |-> failing,
                                   raised |-> out.raised])
    /\ UNCHANGED <<workspace, captured, notifications, executions, now, ticks,
                   docker_client, active_sessions, storage, loggers,
                   transparency_loggers, metrics, tasks, last_call>>

\* the timer of a wait_for expires now, or the command of a wait that does
\* not overrun exits before the clock advances again
TimerDue ==
    \E e \in DOMAIN executions :
        /\ executions[e].pc = "wait"
        /\ LET elapsed == now - executions[e].start_time
           IN  CASE executions[e].behaviour = "overrun" ->
                        elapsed >= executions[e].timeout
                 [] executions[e].behaviour \in {"exit0", "exit1"} ->
                        elapsed + 1 >= executions[e].timeout
                 [] OTHER -> FALSE

(***************************************************************************)
(* The specification.                                                      *)
(***************************************************************************)
Users == {"u1"}

CheckpointNames == {"before-refactor"}

\* the ids a caller can pass: one that no call ever issued, and those it
\* has seen
CallerIds ==
    {SessionId(0)} \cup DOMAIN active_sessions \cup DOMAIN storage
        \cup DOMAIN transparency_loggers

SessionIds == {id \in CallerIds : id.restore = NotRestore}

\* the assigned_agents tried with each mode: the two strategies that never
\* read them get the default, a hybrid task gets agents to spawn
RolesFor(mode) ==
    CASE mode = MANUS -> RoleLists
      [] mode = HYBRID -> RoleLists \ {<<>>}
      [] OTHER -> {<<>>}

\* restore_session with this restore point constructs a logger
Constructs(restore_point_id) == load_session(storage, restore_point_id) # None

Next ==
    \/ \E d \in TickSteps : ticks < MaxTicks /\ Tick(d)
    \/ \E available \in BOOLEAN : Initialize(available)
    \/ \E u \in Users : SMCreateSession(u)
    \/ \E u \in Users : OrchCreateSession(u)
    \/ \E sid \in CallerIds, name \in CheckpointNames : CreateRestorePoint(sid, name)
    \/ \E rp \in CallerIds, target \in SessionIds :
            /\ Constructs(rp) => Len(loggers) < MaxRestores
            /\ RestoreSession(rp, target)
    \/ \E sid \in SessionIds, mode \in ExecutionMode, roles \in RoleLists,
          mk \in BOOLEAN, b \in Behaviours :
            /\ roles \in RolesFor(mode)
            /\ ExecuteTask(sid, mode, roles, mk, b)
    \/ \E t \in 1..MaxTasks, b \in Behaviours : ExecReturn(t, b)
    \/ \E t \in 1..MaxTasks : SleepReturn(t)
    \/ CallEnds

Spec == Init /\ [][Next]_vars

(***************************************************************************)
(* The specification of the transparency logs and their subscribers:       *)
(* sessions get registered by restore_session, callers subscribe, and      *)
(* autonomous tasks log.                                                   *)
(***************************************************************************)
LogNext ==
    \/ \E u \in Users : SMCreateSession(u)
    \/ \E rp \in CallerIds, target \in SessionIds :
            /\ Constructs(rp)
            /\ Len(loggers) < MaxLogRestores
            /\ RestoreSession(rp, target)
    \/ \E sid \in SessionIds, kind \in SubscriberKinds : Subscribe(sid, kind)
    \/ \E sid \in SessionIds : ExecuteTask(sid, MANUS, <<>>, FALSE, "exit0")
    \/ \E t \in 1..MaxTasks : SleepReturn(t)
    \/ NotifyStart
    \/ \E task \in handling : NotifyFinish(task)
    \/ CallEnds

LogSpec == Init /\ [][LogNext]_vars

(***************************************************************************)
(* The specification of the executor alone: commands are executed under    *)
(* whatever strategy initialize has left, and the clock advances by one    *)
(* second unless the loop has a wait to resume first.                      *)
(***************************************************************************)
ExecNext ==
    \/ \E available \in BOOLEAN : Initialize(available)
    \/ ticks < MaxExecTicks /\ ~TimerDue /\ Tick(1)
    \/ \E timeout \in Timeouts, b \in Behaviours, launch \in LaunchTimes :
            CallExecuteCommand(timeout, b, launch)
    \/ \E e \in 1..MaxExecutions : WaitForReturn(e)
    \/ \E e \in 1..MaxExecutions : ContainerExits(e)

ExecSpec == Init /\ [][ExecNext]_vars

(***************************************************************************)
(* Capture and restore alone, on every workspace and target directory of   *)
(* the bounds.                                                             *)
(***************************************************************************)
WorkspaceInit ==
    /\ now = 0
    /\ ticks = 0
    /\ docker_client = FALSE
    /\ active_sessions = <<>>
    /\ storage = <<>>
    /\ loggers = <<>>
    /\ transparency_loggers = <<>>
    /\ metrics = [total_tasks |-> 0, successful_tasks |-> 0, failed_tasks |-> 0,
                  avg_execution_time |-> Frac(0, 1)]
    /\ tasks = <<>>
    /\ last_call = NoCall
    /\ callbacks = <<>>
    /\ ready = <<>>
    /\ handling = {}
    /\ executions = <<>>
    /\ workspace \in Workspaces
    /\ target_workspace \in Targets
    /\ captured = None
    /\ restored = NoCall

WorkspaceNext ==
    \/ \E order \in Orders(workspace) : CaptureWorkspace(order)
    \/ \E failing \in SUBSET {"a.txt", "d/b.txt"} : RestoreWorkspace(failing)

WorkspaceSpec == WorkspaceInit /\ [][WorkspaceNext]_vars

(***************************************************************************)
(* The same with subscribers that never finish handling a notification:    *)
(* what a started coroutine awaits is never done.  The loop runs its ready *)
(* tasks and the callers take what their calls return.                     *)
(***************************************************************************)
StalledNext ==
    \/ \E u \in Users : SMCreateSession(u)
    \/ \E rp \in CallerIds, target \in SessionIds :
            /\ Constructs(rp)
            /\ Len(loggers) < MaxLogRestores
            /\ RestoreSession(rp, target)
    \/ \E sid \in SessionIds, kind \in SubscriberKinds : Subscribe(sid, kind)
    \/ \E sid \in SessionIds : ExecuteTask(sid, MANUS, <<>>, FALSE, "exit0")
    \/ \E t \in 1..MaxTasks : SleepReturn(t)
    \/ NotifyStart
    \/ CallEnds

\* call t is resumed from its wait
Resumed(t) == SleepReturn(t) \/ \E b \in Behaviours : ExecReturn(t, b)

\* The event loop runs its ready callbacks in FIFO order: a coroutine whose
\* wait has ended is resumed however often other calls run in between, and a
\* call that has run returns to its caller.
FairSpec ==
    /\ Spec
    /\ \A t \in 1..MaxTasks : SF_vars(Resumed(t))
    /\ WF_vars(CallEnds)

\* StalledNext with the scheduling of the event loop
StalledSpec ==
    /\ Init /\ [][StalledNext]_vars
    /\ \A t \in 1..MaxTasks : SF_vars(Resumed(t))
    /\ SF_vars(NotifyStart)
    /\ WF_vars(CallEnds)

(***************************************************************************)
(* Properties.                                                             *)
(***************************************************************************)
Calls == DOMAIN tasks

Accepted(t) == tasks[t].pc # "raised"

Done(t) == tasks[t].pc = "done"

\* the actions call t appended to the logger it holds, in log order
IsOf(t, a) == a.task = t

ActionsOf(t) ==
    LET IsOfT(a) == IsOf(t, a)
    IN  SelectSeq(loggers[tasks[t].logger].actions, IsOfT)

TypesOf(t) == StepNames(ActionsOf(t))

\* call t is made in this step
IsCalled(t) == t \notin DOMAIN tasks /\ t \in DOMAIN tasks'

\* call t returns in this step
Returns(t) == t \in DOMAIN tasks' /\ tasks'[t].pc = "done"
                 /\ (t \in DOMAIN tasks => tasks[t].pc # "done")

IsTaskResult(r, t) ==
    /\ r # None
    /\ r.task_id = t
    /\ r.success \in BOOLEAN

\* C1 (as the spec states it): execute_task never raises to its caller,
\* whether or not the session id is registered.
C1_NeverRaises == \A t \in Calls : tasks[t].pc # "raised"

\* C1 (amended): execute_task raises only SessionNotFound, and only on a
\* session id without a registered logger, before it logged anything; a call
\* on a registered session id never raises, also when its strategy raised:
\* it returns a TaskResult.
C1_RaisesOnlySessionNotFound ==
    /\ [](\A t \in Calls :
            /\ tasks[t].pc = "raised" =>
                  /\ tasks[t].error = "SessionNotFound"
                  /\ tasks[t].logger = 0
                  /\ tasks[t].steps = <<>>
            /\ tasks[t].exception # NoneStr =>
                  Done(t) /\ IsTaskResult(tasks[t].result, t)
            /\ Done(t) => IsTaskResult(tasks[t].result, t))
    /\ [][\A t \in 1..MaxTasks :
            IsCalled(t) =>
               (tasks'[t].pc = "raised"
                   <=> tasks'[t].session_id \notin DOMAIN transparency_loggers)]_vars

\* a call whose strategy raised has returned, after another call was rejected
C1_Witness ==
    \E t, u \in Calls :
        /\ tasks[t].pc = "raised"
        /\ tasks[u].exception = "OSError"
        /\ Done(u)
        /\ tasks[u].result.success = FALSE

\* C2: execute_task on a session id without a registered logger raises
\* SessionNotFound; the rejected call appends no action to any log, invokes
\* no executor and leaves every metrics counter unchanged.
C2_RejectionHasNoEffect ==
    [][\A t \in 1..MaxTasks :
          (IsCalled(t) /\ tasks'[t].session_id \notin DOMAIN transparency_loggers)
          => /\ tasks'[t].pc = "raised"
             /\ tasks'[t].error = "SessionNotFound"
             /\ tasks'[t].steps = <<>>
             /\ tasks'[t].executed = None
             /\ loggers' = loggers
             /\ metrics' = metrics
             /\ \A u \in Calls : tasks'[u] = tasks[u]]_vars

\* a call was rejected while a log holds actions and the counters count
C2_Witness ==
    /\ metrics.total_tasks = 1
    /\ tasks # <<>>
    /\ Last(tasks).pc = "raised"
    /\ \E i \in DOMAIN loggers : loggers[i].actions # <<>>

\* C3: when create_session returns, the SessionManager holds and has
\* persisted a SessionState with the returned id, an empty logger is
\* registered under that id, and execute_task accepts the id.
C3_CreateSessionRegisters ==
    last_call.op = "create_session" =>
        /\ last_call.outcome = "returned"
        /\ last_call.value \in DOMAIN active_sessions
        /\ last_call.value \in DOMAIN storage
        /\ last_call.value \in DOMAIN transparency_loggers
        /\ loggers[transparency_loggers[last_call.value]].actions = <<>>

IsTerminal(action_type) == action_type \in {"task_complete", "task_failed"}

\* C4: every accepted execute_task call appends task_start before any other
\* action of the call and eventually exactly one terminal action,
\* task_complete or task_failed, as its last action; its TaskResult is
\* produced exactly once and its success flag is true for task_complete and
\* false for task_failed.  A call stays accepted and a returned call stays
\* returned, so "eventually" is: again and again no accepted call is pending.
C4_Lifecycle ==
    /\ [](\A t \in Calls : Accepted(t) =>
            LET acts == ActionsOf(t)
                n == Len(acts)
            IN  /\ n >= 1
                /\ acts[1].action_type = "task_start"
                /\ \A i \in 2..n : acts[i].action_type # "task_start"
                /\ \A i \in 1..n :
                      IsTerminal(acts[i].action_type) => i = n /\ Done(t)
                /\ Done(t) =>
                      /\ IsTerminal(acts[n].action_type)
                      /\ IsTaskResult(tasks[t].result, t)
                      /\ tasks[t].result.success
                            = (acts[n].action_type = "task_complete")
                      /\ acts[n].success = tasks[t].result.success
                /\ ~Done(t) => tasks[t].result = None)
    /\ [][\A t \in Calls : Done(t) =>
            tasks'[t] = tasks[t] /\ ActionsOf(t)' = ActionsOf(t)]_vars
    /\ []<>(\A t \in Calls : Accepted(t) => Done(t))

\* one call has completed and one has failed, each after a suspension
C4_Witness ==
    \E t, u \in Calls :
        /\ Done(t) /\ Done(u)
        /\ Last(TypesOf(t)) = "task_complete"
        /\ Last(TypesOf(u)) = "task_failed"
        /\ Len(TypesOf(t)) > 2

IsIsolated(call) == call.task_context.execution_mode = OPENHANDS

TimedOut(call) == call.behaviour = "overrun"

IsHybrid(call) == call.task_context.execution_mode = HYBRID

IsAutonomous(call) == call.task_context.execution_mode = MANUS

\* the sequence of n copies of x
Repeat(x, n) == [i \in 1..n |-> x]

\* the action types call t logged, as its history records them, agree with
\* the log
LogAgrees(t) ==
    TypesOf(t) = SelectSeq(tasks[t].steps, LAMBDA x : x # "execute_command")

IsolatedSteps == <<"perceive", "plan", "execute_command", "execute", "reflect">>

\* C6 (as the spec states it): every isolated-mode task appends perceive,
\* plan, execute, reflect between its task_start and its terminal action and
\* invokes the executor once, between plan and execute.
C6_IsolatedPipeline ==
    \A t \in Calls :
        (Done(t) /\ IsIsolated(tasks[t])) =>
            \E terminal \in {"task_complete", "task_failed"} :
                tasks[t].steps = <<"task_start">> \o IsolatedSteps \o <<terminal>>

\* C6 (amended): an isolated-mode task on a registered session whose
\* workspace directory can be created appends, between its task_start and
\* its terminal action, perceive, plan, execute, reflect in exactly that
\* order, invokes the executor exactly once, after plan and before execute,
\* and returns the raw ExecutionResult of that invocation in its result,
\* which is also the output of its execute action.  When creating the
\* workspace directory raises, the task appends perceive and plan, never
\* invokes the executor and ends with task_failed.
C6_IsolatedPipelineUnlessMkdirFails ==
    \A t \in Calls :
        (Accepted(t) /\ IsIsolated(tasks[t])) =>
            /\ LogAgrees(t)
            /\ (Done(t) /\ tasks[t].exception = NoneStr) =>
                  /\ tasks[t].steps =
                        <<"task_start">> \o IsolatedSteps \o <<"task_complete">>
                  /\ tasks[t].executed # None
                  /\ tasks[t].result.result.execution_result = tasks[t].executed
                  /\ ActionsOf(t)[4].output_data = tasks[t].executed
            /\ (Done(t) /\ tasks[t].exception # NoneStr) =>
                  /\ tasks[t].steps =
                        <<"task_start", "perceive", "plan", "task_failed">>
                  /\ tasks[t].executed = None
            /\ ~Done(t) =>
                  /\ tasks[t].pc = "exec_wait"
                  /\ tasks[t].steps =
                        <<"task_start", "perceive", "plan", "execute_command">>

\* one isolated task ran its whole pipeline on a command that exited 1, and
\* another failed in mkdir
C6_Witness ==
    \E t, u \in Calls :
        /\ Done(t) /\ IsIsolated(tasks[t]) /\ tasks[t].behaviour = "exit1"
        /\ tasks[t].result.success
        /\ Done(u) /\ IsIsolated(tasks[u]) /\ tasks[u].exception = "OSError"

Spawns(call) == Repeat("spawn", Len(call.task_context.assigned_agents))

GenerativeSteps ==
    <<"architecture_design">> \o Repeat("generate_component", Len(Components))
    \o <<"prepare_deployment">>

\* the steps of a hybrid call up to its sleep and from its sleep on
HybridBeforeSleep(call) ==
    <<"task_start">> \o IsolatedSteps \o Spawns(call) \o <<"research">>

HybridAfterSleep == GenerativeSteps \o <<"hybrid_synthesis", "task_complete">>

\* C7 (as the spec states it): every hybrid-mode task logs perceive, plan,
\* execute, reflect, one spawn per assigned role, research,
\* architecture_design, five generate_component, prepare_deployment and a
\* final hybrid_synthesis, and its result holds the three sub-results.
C7_HybridPipeline ==
    \A t \in Calls :
        (Done(t) /\ IsHybrid(tasks[t])) =>
            \E terminal \in {"task_complete", "task_failed"} :
                tasks[t].steps =
                    HybridBeforeSleep(tasks[t]) \o GenerativeSteps
                    \o <<"hybrid_synthesis", terminal>>

\* C7 (amended): a hybrid-mode task whose workspace directory can be created
\* runs the isolated, autonomous and generative strategies in that order on
\* the same TaskContext: it logs perceive, plan, execute, reflect, then one
\* spawn per assigned role, in order, and one research, then
\* architecture_design, five generate_component (frontend, backend, database,
\* authentication, deployment, in that order) and prepare_deployment, then
\* hybrid_synthesis and task_complete, and its result holds the three
\* sub-results.  When creating the workspace directory raises, the task logs
\* perceive and plan, runs no later strategy and ends with task_failed.
C7_HybridPipelineUnlessMkdirFails ==
    \A t \in Calls :
        (Accepted(t) /\ IsHybrid(tasks[t])) =>
            LET call == tasks[t]
                roles == call.task_context.assigned_agents
                acts == ActionsOf(t)
            IN  /\ LogAgrees(t)
                /\ (Done(t) /\ call.exception = NoneStr) =>
                      /\ call.steps = HybridBeforeSleep(call) \o HybridAfterSleep
                      /\ \A i \in 1..Len(roles) :
                            acts[5 + i].agent_type = roles[i]
                      /\ \A i \in 1..Len(Components) :
                            acts[7 + Len(roles) + i].description = Components[i]
                      /\ call.result.result.approach = "hybrid"
                      /\ call.result.result.openhands_result
                            = OpenhandsResult(call.executed)
                      /\ call.result.result.manus_result = ManusResult(roles)
                      /\ call.result.result.emergent_result = EmergentResult
                /\ (Done(t) /\ call.exception # NoneStr) =>
                      call.steps = <<"task_start", "perceive", "plan", "task_failed">>
                /\ call.pc = "exec_wait" =>
                      call.steps =
                          <<"task_start", "perceive", "plan", "execute_command">>
                /\ call.pc = "sleep" => call.steps = HybridBeforeSleep(call)

\* a hybrid task with two roles returned all three sub-results after its
\* command overran the timeout
C7_Witness ==
    \E t \in Calls :
        /\ Done(t) /\ IsHybrid(tasks[t]) /\ tasks[t].result.success
        /\ Len(tasks[t].task_context.assigned_agents) = 2
        /\ tasks[t].behaviour = "overrun"
        /\ Len(ActionsOf(t)) = 17

\* C8: an autonomous-mode task logs exactly one spawn per role of
\* assigned_agents, in their order and attributed to the role, then exactly
\* one research; it never invokes the executor; its result lists exactly the
\* assigned roles as spawned.
C8_AutonomousSpawns ==
    \A t \in Calls :
        (Accepted(t) /\ IsAutonomous(tasks[t])) =>
            LET call == tasks[t]
                roles == call.task_context.assigned_agents
                acts == ActionsOf(t)
            IN  /\ LogAgrees(t)
                /\ call.executed = None
                /\ call.exception = NoneStr
                /\ call.pc \in {"sleep", "done"}
                /\ call.steps =
                      <<"task_start">> \o Spawns(call) \o <<"research">>
                      \o (IF Done(t) THEN <<"task_complete">> ELSE <<>>)
                /\ \A i \in 1..Len(roles) :
                      /\ acts[1 + i].agent_type = roles[i]
                      /\ acts[1 + i].description = roles[i]
                /\ Done(t) =>
                      /\ call.result.success
                      /\ call.result.result.agents_spawned = roles

\* an autonomous task with two roles has returned, and one without roles
C8_Witness ==
    \E t, u \in Calls :
        /\ Done(t) /\ IsAutonomous(tasks[t]) /\ Done(u) /\ IsAutonomous(tasks[u])
        /\ tasks[t].task_context.assigned_agents = <<CODING, RESEARCH>>
        /\ tasks[u].task_context.assigned_agents = <<>>

\* C9: when a strategy raises during execute_task, a task_failed action with
\* success = false and the error message is appended, total_tasks and
\* failed_tasks each increase by exactly 1, successful_tasks is unchanged,
\* and the call returns a TaskResult with success = false and that error
\* message instead of raising.
C9_StrategyExceptionIsReported ==
    [][\A t \in 1..MaxTasks :
         (t \in DOMAIN tasks' /\ tasks'[t].exception # NoneStr
            /\ (t \in DOMAIN tasks => tasks[t].exception = NoneStr)) =>
            LET call == tasks'[t]
                acts == ActionsOf(t)'
                failed == Last(acts)
            IN  /\ call.pc = "done"
                /\ failed.action_type = "task_failed"
                /\ failed.success = FALSE
                /\ failed.error_message = call.exception
                /\ failed.agent_type = ORCHESTRATOR
                /\ Cardinality({i \in DOMAIN acts :
                                   IsTerminal(acts[i].action_type)}) = 1
                /\ metrics'.total_tasks = metrics.total_tasks + 1
                /\ metrics'.failed_tasks = metrics.failed_tasks + 1
                /\ metrics'.successful_tasks = metrics.successful_tasks
                /\ metrics'.avg_execution_time = metrics.avg_execution_time
                /\ call.result.success = FALSE
                /\ call.result.error = call.exception
                /\ call.result.task_id = t]_vars

\* a hybrid task failed in mkdir after another task had completed
C9_Witness ==
    \E t \in Calls :
        /\ Done(t) /\ IsHybrid(tasks[t]) /\ tasks[t].exception = "OSError"
        /\ metrics.failed_tasks = 1 /\ metrics.successful_tasks = 1

RECURSIVE SumOfDurations(_)
SumOfDurations(n) ==
    IF n = 0 THEN 0
    ELSE SumOfDurations(n - 1)
           + (IF Accepted(n) /\ Done(n) /\ tasks[n].result.success
              THEN tasks[n].result.execution_time ELSE 0)

Completed == {t \in Calls : Accepted(t) /\ Done(t) /\ tasks[t].result.success}

\* C10: avg_execution_time is the arithmetic mean of the durations of the
\* tasks that completed, also when failed tasks are interleaved with them.
C10_AverageIsMean ==
    Completed # {} =>
        metrics.avg_execution_time.num * Cardinality(Completed)
            = SumOfDurations(Len(tasks)) * metrics.avg_execution_time.den

\* C11: in every reachable state get_metrics reports success_rate =
\* successful_tasks / total_tasks * 100 when total_tasks > 0 and 0 when
\* total_tasks = 0, and as active_sessions the number of session ids that
\* have a registered TransparencyLogger.
C11_GetMetrics ==
    LET reported == get_metrics
    IN  /\ metrics.total_tasks > 0 =>
              reported.success_rate.num * metrics.total_tasks
                  = metrics.successful_tasks * 100 * reported.success_rate.den
        /\ metrics.total_tasks = 0 => reported.success_rate = Frac(0, 1)
        /\ reported.active_sessions
              = Cardinality({sid \in CallerIds : sid \in DOMAIN transparency_loggers})
        /\ reported.total_tasks = metrics.total_tasks
        /\ reported.successful_tasks = metrics.successful_tasks
        /\ reported.failed_tasks = metrics.failed_tasks

\* one task of two completed, on a session id that is registered but is not
\* a session of the SessionManager
C11_Witness ==
    /\ get_metrics.success_rate = Frac(50, 1)
    /\ get_metrics.active_sessions = 1
    /\ DOMAIN transparency_loggers \cap DOMAIN active_sessions = {}

\* C12: total_tasks = successful_tasks + failed_tasks = the number of
\* accepted execute_task calls that have returned, in every reachable state
\* and also with several calls in flight, and no step decreases a counter.
C12_CountersLoseNoUpdate ==
    /\ [](/\ metrics.total_tasks = metrics.successful_tasks + metrics.failed_tasks
          /\ metrics.total_tasks = Cardinality({t \in Calls : Done(t)})
          /\ metrics.successful_tasks
                = Cardinality({t \in Calls : Done(t) /\ tasks[t].result.success})
          /\ metrics.failed_tasks
                = Cardinality({t \in Calls : Done(t) /\ ~tasks[t].result.success}))
    /\ [][/\ metrics'.total_tasks >= metrics.total_tasks
          /\ metrics'.successful_tasks >= metrics.successful_tasks
          /\ metrics'.failed_tasks >= metrics.failed_tasks]_vars

\* two calls on one session have returned, one failed and one completed,
\* the second called while the first was suspended
C12_Witness ==
    /\ Len(tasks) = 2 /\ Done(1) /\ Done(2)
    /\ tasks[1].logger = tasks[2].logger
    /\ tasks[1].result.success /\ ~tasks[2].result.success
    /\ LET actions == loggers[tasks[1].logger].actions
       IN  \E i, j \in DOMAIN actions :
              /\ i < j
              /\ actions[i].task = 2
              /\ actions[j].task = 1

\* the calls that run in this step
Stepping ==
    {t \in DOMAIN tasks' : t \notin DOMAIN tasks \/ tasks'[t].steps # tasks[t].steps}

\* the action types call t logs in this step, in the order of its statements
LoggedInStep(t) ==
    LET before == IF t \in DOMAIN tasks THEN Len(tasks[t].steps) ELSE 0
    IN  SelectSeq(SubSeq(tasks'[t].steps, before + 1, Len(tasks'[t].steps)),
                  LAMBDA x : x # "execute_command")

\* how many actions call t had constructed before this step
ConstructedBefore(t) ==
    IF t \in DOMAIN tasks
    THEN Len(SelectSeq(tasks[t].steps, LAMBDA x : x # "execute_command"))
    ELSE 0

\* C13: export_session_log, and get_actions without filter and limit,
\* return exactly the actions appended to the log, in the order in which
\* they were appended, and total_actions is their number: every step
\* extends what they return by the actions it appends, in its order.
C13_AppendOrder ==
    [][\A l \in DOMAIN loggers' :
         LET old == IF l \in DOMAIN loggers
                    THEN export_session_log(loggers[l]).actions ELSE <<>>
             exported == export_session_log(loggers'[l])
             new == exported.actions
             appending == {t \in Stepping : tasks'[t].logger = l}
         IN  /\ exported.total_actions = Len(new)
             /\ Len(new) >= Len(old)
             /\ SubSeq(new, 1, Len(old)) = old
             /\ [i \in 1..Len(new) |->
                    asdict(get_actions(loggers'[l], None, None)[i])] = new
             /\ appending = {} => new = old
             /\ \A t \in appending :
                   LET logged == LoggedInStep(t)
                   IN  /\ Len(new) = Len(old) + Len(logged)
                       /\ \A i \in 1..Len(logged) :
                             /\ new[Len(old) + i].action_type = logged[i]
                             /\ new[Len(old) + i].id
                                   = <<t, ConstructedBefore(t) + i>>]_vars

\* a log holds the actions of two calls, the second call's between the
\* first call's
C13_Witness ==
    \E l \in DOMAIN loggers :
        LET exported == export_session_log(loggers[l])
        IN  /\ exported.total_actions >= 6
            /\ \E i, j, k \in 1..exported.total_actions :
                  /\ i < j /\ j < k
                  /\ exported.actions[i].id[1] = 1
                  /\ exported.actions[j].id[1] = 2
                  /\ exported.actions[k].id[1] = 1

(***************************************************************************)
(* C14.  What a subscriber observes.                                       *)
(***************************************************************************)
Ids(actions) == [i \in 1..Len(actions) |-> actions[i].id]

\* the actions callback c was called with, followed by those its scheduled
\* notification tasks will hand to it, in the order the loop starts them
Observed(c) ==
    LET IsFor(task) == task.callback = c
        pending == SelectSeq(ready, IsFor)
    IN  callbacks[c].received \o [i \in 1..Len(pending) |-> pending[i].action]

\* the callbacks subscribed on a log of session session_id
SessionSubscribers(session_id) ==
    {c \in DOMAIN callbacks :
        \E l \in DOMAIN loggers :
            /\ loggers[l].session_id = session_id
            /\ \E i \in DOMAIN loggers[l].subscribers :
                  loggers[l].subscribers[i] = c}

\* the log registered for session_id
SessionLog(session_id) == loggers[transparency_loggers[session_id]]

IsPrefix(s, t) == Len(s) <= Len(t) /\ SubSeq(t, 1, Len(s)) = s

\* C14: whenever actions are appended to the log of a session, every
\* callback subscribed on the session before that step observes exactly
\* these actions, once each and in the order of the append, after what it
\* had observed; and a subscriber never observes an action twice.
C14_SubscribersObserveAppends ==
    /\ [](\A c \in DOMAIN callbacks :
            \A i, j \in DOMAIN Observed(c) :
                Observed(c)[i] = Observed(c)[j] => i = j)
    /\ [][\A session_id \in DOMAIN transparency_loggers :
            \A c \in SessionSubscribers(session_id) :
                LET before == Ids(SessionLog(session_id).actions)
                    after == Ids(SessionLog(session_id)'.actions)
                IN  IsPrefix(before, after) =>
                        Observed(c)' = Observed(c)
                            \o SubSeq(after, Len(before) + 1, Len(after))]_vars

(***************************************************************************)
(* C15.  Subscriber isolation.                                             *)
(***************************************************************************)
\* the callbacks in the subscribers list of lg
SubscribersOf(lg) == {lg.subscribers[i] : i \in DOMAIN lg.subscribers}

\* a subscriber that fails on every notification: a plain function, whose
\* call or whose create_task raises inside log_action, and a coroutine
\* function whose body raises
Fails(c) == callbacks[c].kind \in {"function", "coroutine_raises"}

\* C15: on a log with a failing subscriber, every step of a call that
\* appends to the log leaves the call accepted (nothing is raised to its
\* caller), records the actions at the end of the log and hands exactly
\* them, in order, to every subscriber of the log, the failing one and all
\* others; and no other step, the failing notification task included,
\* changes the log or what a subscriber observes.
C15_SubscriberIsolation ==
    [][\A l \in DOMAIN loggers :
          (\E f \in SubscribersOf(loggers[l]) : Fails(f)) =>
              LET before == Ids(loggers[l].actions)
                  after == Ids(loggers'[l].actions)
                  appending == {t \in Stepping : tasks'[t].logger = l}
              IN  /\ IsPrefix(before, after)
                  /\ \A t \in appending :
                        /\ Accepted(t)'
                        /\ Len(after) = Len(before) + Len(LoggedInStep(t))
                  /\ appending = {} => after = before
                  /\ \A c \in SubscribersOf(loggers[l]) :
                        Observed(c)' = Observed(c)
                            \o SubSeq(after, Len(before) + 1, Len(after))]_vars

\* a plain function and a coroutine function subscribed on one log, the
\* plain function first; both were called with an action of the first call
\* and then with an action of the second call, and both calls succeeded
C15_Witness ==
    \E l \in DOMAIN loggers :
        /\ Len(loggers[l].subscribers) = 2
        /\ callbacks[loggers[l].subscribers[1]].kind = "function"
        /\ callbacks[loggers[l].subscribers[2]].kind = "coroutine"
        /\ \A c \in SubscribersOf(loggers[l]) :
              \E i, j \in DOMAIN callbacks[c].received :
                  /\ i < j
                  /\ callbacks[c].received[i][1] = 1
                  /\ callbacks[c].received[j][1] = 2
        /\ Calls = {1, 2}
        /\ \A t \in Calls : Done(t) /\ tasks[t].logger = l

(***************************************************************************)
(* C16.  Appending is fire-and-forget.                                     *)
(***************************************************************************)
\* C16: while no started notification ever finishes, a step of a call that
\* appends leaves the actions in the log, queues the notifications behind
\* the ready ones and runs no subscriber (what the callbacks received and
\* the suspended notifications stay as they were); every accepted call
\* reaches its terminal action and every queued notification is started,
\* whatever is suspended.
C16_FireAndForget ==
    /\ [][\A t \in Stepping :
            LET l == tasks'[t].logger
            IN  Accepted(t)' =>
                    /\ Len(loggers'[l].actions)
                          = Len(loggers[l].actions) + Len(LoggedInStep(t))
                    /\ handling' = handling
                    /\ IsPrefix(ready, ready')
                    /\ \A c \in DOMAIN callbacks :
                          callbacks'[c].received = callbacks[c].received]_vars
    /\ []<>(\A t \in Calls : Accepted(t) => Done(t))
    /\ []<>(ready = <<>>)

(***************************************************************************)
(* C17.  The log of a session only grows.                                  *)
(***************************************************************************)
AgentTypeFilters == {None, Some(ORCHESTRATOR), Some(RESEARCH), Some(CODING)}

\* C17: for every session id and every agent_type filter, what
\* get_transparency_log returns before a step is a prefix of what it
\* returns after the step.
C17_LogOnlyGrows ==
    [][\A session_id \in DOMAIN transparency_loggers \cup {SessionId(0)} :
          \A agent_type \in AgentTypeFilters :
              IsPrefix(get_transparency_log(session_id, agent_type),
                       get_transparency_log(session_id, agent_type)')]_vars

(***************************************************************************)
(* C18.  Session isolation of the logs.                                    *)
(***************************************************************************)
\* the actions of call t that log l holds
ActionsOfIn(t, l) == SelectSeq(loggers[l].actions, LAMBDA a : a.id[1] = t)

\* C18: the actions a call has logged are, once each, in exactly one log,
\* a log of the call's session, and in no other log; and a step of a call
\* on session A changes no log of another session, neither its actions nor
\* its subscribers, nor which log is registered for which session, nor
\* what get_transparency_log returns for another session.
C18_SessionIsolation ==
    /\ [](\A t \in Calls :
            \A l \in DOMAIN loggers :
                IF l = tasks[t].logger
                THEN /\ loggers[l].session_id = tasks[t].session_id
                     /\ Ids(ActionsOfIn(t, l))
                           = [n \in 1..Len(SelectSeq(tasks[t].steps,
                                     LAMBDA x : x # "execute_command")) |->
                                 <<t, n>>]
                ELSE ActionsOfIn(t, l) = <<>>)
    /\ [][\A t \in Stepping :
            /\ transparency_loggers' = transparency_loggers
            /\ DOMAIN loggers' = DOMAIN loggers
            /\ \A l \in DOMAIN loggers :
                  loggers[l].session_id # tasks'[t].session_id =>
                      loggers'[l] = loggers[l]
            /\ \A session_id \in DOMAIN transparency_loggers :
                  session_id # tasks'[t].session_id =>
                      get_transparency_log(session_id, None)'
                          = get_transparency_log(session_id, None)]_vars

\* two calls on different sessions are suspended at the same time, each
\* session's log has a subscriber, and each log holds what its session's
\* call has logged
C18_Witness ==
    /\ Calls = {1, 2}
    /\ tasks[1].pc = "sleep" /\ tasks[2].pc = "sleep"
    /\ tasks[1].session_id # tasks[2].session_id
    /\ \A t \in Calls :
          /\ loggers[tasks[t].logger].subscribers # <<>>
          /\ Len(loggers[tasks[t].logger].actions) = 2
          /\ \A i \in 1..2 : loggers[tasks[t].logger].actions[i].id[1] = t

(***************************************************************************)
(* C19.  execute_command never raises.                                     *)
(***************************************************************************)
\* C19: under either strategy, every execute_command call that has ended
\* returned a result and raised nothing; a command that exited with 0 is
\* reported with success and exit code 0, one that exited with 1 with
\* success False and exit code 1, and a failure of the launch or inside the
\* executor with success False and exit code -1.
C19_ExecuteNeverRaises ==
    \A e \in DOMAIN executions :
        executions[e].pc = "done" =>
            /\ executions[e].outcome.outcome = "returned"
            /\ LET result == executions[e].outcome.value
                   behaviour == executions[e].behaviour
               IN  /\ DOMAIN result
                         = {"success", "exit_code", "stderr", "execution_time"}
                   /\ behaviour = "exit0" =>
                         result.success /\ result.exit_code = 0
                   /\ behaviour = "exit1" =>
                         ~result.success /\ result.exit_code = 1
                   /\ behaviour = "infra_error" =>
                         ~result.success /\ result.exit_code = -1

\* a launch failure under the local strategy and one under the container
\* strategy have both ended in a failed result with exit code -1
C19_Witness ==
    /\ Len(executions) = 2
    /\ executions[1].strategy = "local" /\ executions[2].strategy = "container"
    /\ \A e \in DOMAIN executions :
          /\ executions[e].behaviour = "infra_error"
          /\ executions[e].pc = "done"
          /\ executions[e].outcome.value.exit_code = -1
          /\ ~executions[e].outcome.value.success

(***************************************************************************)
(* C20.  Timeout determinism.                                              *)
(***************************************************************************)
\* the ended execute_command calls whose command ran past the timeout
Overran ==
    {e \in DOMAIN executions :
        executions[e].pc = "done" /\ executions[e].behaviour = "overrun"}

\* C20 as stated: a command that runs past the timeout yields success False
\* and exit code -1, the reported execution_time is the timeout, and the
\* call has returned no later than timeout seconds after it was made.
C20_TimeoutDeterminism ==
    \A e \in Overran :
        LET result == executions[e].outcome.value
        IN  /\ ~result.success
            /\ result.exit_code = -1
            /\ result.execution_time = executions[e].timeout
            /\ executions[e].returned_at - executions[e].start_time
                  <= executions[e].timeout

\* C20, amended: a command that runs past the timeout yields success False
\* and exit code -1 and the call does not return before the timeout has
\* expired.  Under the local strategy the reported execution_time is the
\* timeout and stderr is "Command timed out"; under the container strategy
\* the call blocks for the launch of the container and the timeout, and
\* the reported execution_time is that measured time.
C20_TimeoutReportedPerStrategy ==
    \A e \in Overran :
        LET result == executions[e].outcome.value
            blocked == executions[e].returned_at - executions[e].start_time
        IN  /\ ~result.success
            /\ result.exit_code = -1
            /\ blocked >= executions[e].timeout
            /\ IF executions[e].strategy = "local"
               THEN /\ result.execution_time = executions[e].timeout
                    /\ result.stderr = "Command timed out"
               ELSE /\ blocked = executions[e].launch + executions[e].timeout
                    /\ result.execution_time = blocked

\* a command overran under each strategy; the container took a second to
\* launch and its call reports more than its timeout
C20_Witness ==
    \E e, f \in Overran :
        /\ executions[e].strategy = "local"
        /\ executions[e].outcome.value.execution_time = executions[e].timeout
        /\ executions[f].strategy = "container"
        /\ executions[f].launch = 1
        /\ executions[f].outcome.value.execution_time > executions[f].timeout

(***************************************************************************)
(* C21.  A timeout terminates the process or container.                    *)
(***************************************************************************)
\* C21: once an execute_command call has returned a failed result, the
\* process or container it started runs no more and active_containers
\* holds no container of the call.
C21_TimeoutTerminates ==
    \A e \in DOMAIN executions :
        (executions[e].pc = "done" /\ ~executions[e].outcome.value.success) =>
            ~executions[e].running /\ ~executions[e].tracked

(***************************************************************************)
(* C22.  The strategy is selected at initialization.                       *)
(***************************************************************************)
\* C22: a call of execute_command uses the container strategy exactly when
\* initialize has left a docker client, and no step of a call, neither a
\* launch failure nor a timeout, changes that: only initialize does, and a
\* probe that fails later keeps the client.  So no call is local after a
\* container call, and all calls are local while there is no client.
C22_StrategySelectedAtInitialization ==
    /\ [](/\ ~docker_client =>
                \A e \in DOMAIN executions : executions[e].strategy = "local"
          /\ \A e, f \in DOMAIN executions :
                (e < f /\ executions[e].strategy = "container") =>
                    executions[f].strategy = "container")
    /\ [][/\ Len(executions') > Len(executions) =>
                executions'[Len(executions')].strategy
                    = IF docker_client THEN "container" ELSE "local"
          /\ executions' # executions => docker_client' = docker_client
          /\ docker_client => docker_client']_vars

\* after a container launch that failed and a container command that ran
\* past its timeout, a third call would still find the docker client
C22_Witness ==
    /\ Len(executions) = 2
    /\ docker_client
    /\ executions[1].strategy = "container"
    /\ executions[1].behaviour = "infra_error"
    /\ executions[2].strategy = "container"
    /\ executions[2].behaviour = "overrun"
    /\ \A e \in DOMAIN executions : executions[e].pc = "done"

(***************************************************************************)
(* Checkpoints of workspaces.                                              *)
(***************************************************************************)
\* the regular files of a directory tree
FilesOf(fs) == {p \in Paths : fs[p].kind = "file"}

\* every regular file is text below the size threshold
OnlyTextBelowThreshold(fs) ==
    \A p \in FilesOf(fs) :
        fs[p].st_size < MaxFileSize /\ read(fs[p]).outcome = "returned"

\* the restore call has returned, having found the directory before
RestoredFrom(before) ==
    restored # NoCall /\ restored.value.before = before

\* C23: capturing a workspace that holds only text files below the size
\* threshold and restoring the snapshot into an empty target directory
\* leaves, when no write fails, a target whose regular files are those of
\* the workspace, each with the bytes of the original.
C23_CheckpointRoundTrip ==
    (/\ RestoredFrom(EmptyDirectory)
     /\ restored.value.raised = None
     /\ OnlyTextBelowThreshold(workspace)) =>
        /\ FilesOf(target_workspace) = FilesOf(workspace)
        /\ \A p \in FilesOf(workspace) :
              target_workspace[p].bytes = workspace[p].bytes

\* the paths a snapshot holds content for
StoredPaths(snap) == {snap.files[i].path : i \in DOMAIN snap.files}

\* C24: a capture never aborts on a single entry: a regular file is stored
\* in files exactly when its size is below the 1 MiB threshold and its
\* content reads as text, whatever error another entry caused, and every
\* entry under the root, the omitted files included, is listed in structure
\* with its directory flag and size.
C24_CaptureIsPerEntry ==
    captured # None =>
        /\ StoredPaths(captured) =
              {p \in FilesOf(workspace) :
                  /\ workspace[p].st_size < MaxFileSize
                  /\ read(workspace[p]).outcome = "returned"}
        /\ \A p \in rglob(workspace) :
              \E i \in DOMAIN captured.structure :
                  captured.structure[i] =
                      [path |-> p, is_dir |-> workspace[p] = Directory,
                       size |-> IF workspace[p].kind = "file"
                                THEN workspace[p].st_size ELSE 0]

\* writing the entry at path into the directory raises nothing
Writable(fs, path, failing) ==
    ~mkdir_raises(fs, path) /\ ~open_raises(mkdir(fs, path), path, failing)

\* C25: when writing one entry of the snapshot fails, every other entry of
\* files whose own write fails on nothing, those after the failing one
\* included, is still written to the target.
C25_RestoreIsPerFile ==
    (restored # NoCall /\ restored.value.raised # None) =>
        \A i \in DOMAIN captured.files :
            Writable(restored.value.before, captured.files[i].path,
                     restored.value.failing) =>
                /\ target_workspace[captured.files[i].path].kind = "file"
                /\ target_workspace[captured.files[i].path].bytes =
                      write_newlines(captured.files[i].content)

\* the directories that writing the entries of files may create
ParentsOf(files) ==
    {Parents[files[i].path] : i \in {j \in DOMAIN files : files[j].path \in DOMAIN Parents}}

\* C26: a restore that no write fails in leaves every entry of the
\* snapshot's files in the target as a file with the snapshot's content,
\* below a directory; and every restore leaves each path that is not a key
\* of files as it found it, except that it creates the missing parent
\* directories of the keys: nothing is deleted or modified, and the
\* originals that the capture skipped are not recreated.
C26_RestoreFrame ==
    restored # NoCall =>
        LET before == restored.value.before
            files == captured.files
        IN  /\ restored.value.raised = None =>
                  \A i \in DOMAIN files :
                      /\ target_workspace[files[i].path] =
                            TextFile(write_newlines(files[i].content))
                      /\ files[i].path \in DOMAIN Parents =>
                            target_workspace[Parents[files[i].path]] = Directory
            /\ \A p \in Paths \ StoredPaths(captured) :
                  \/ target_workspace[p] = before[p]
                  \/ /\ p \in ParentsOf(files)
                     /\ before[p] = Absent
                     /\ target_workspace[p] = Directory
            /\ \A p \in FilesOf(workspace) \ StoredPaths(captured) :
                  target_workspace[p] = before[p]

\* a restore overwrote d/b.txt and left a.txt, whose original the capture
\* skipped, as it was
C26_Witness ==
    /\ restored # NoCall
    /\ restored.value.raised = None
    /\ workspace["a.txt"] = TextFile(<<"0xFF">>)
    /\ StoredPaths(captured) = {"d/b.txt"}
    /\ restored.value.before["a.txt"] = TextFile(<<"o">>)
    /\ restored.value.before["d/b.txt"] = TextFile(<<"o">>)
    /\ target_workspace["a.txt"] = TextFile(<<"o">>)
    /\ target_workspace["d/b.txt"] = TextFile(<<"h", "\n">>)

(***************************************************************************)
(* Checkpoints and the session they were taken of.                         *)
(***************************************************************************)
\* C27: the id of a checkpoint is not the id of a live session, and a step
\* of create_restore_point or restore_session leaves the SessionState of
\* every live session and its persisted record as they were.
C27_CheckpointLeavesSession ==
    [][(last_call = NoCall
        /\ last_call'.op \in {"create_restore_point", "restore_session"}) =>
          /\ active_sessions' = active_sessions
          /\ \A id \in DOMAIN active_sessions \cap DOMAIN storage :
                id \in DOMAIN storage' /\ storage'[id] = storage[id]
          /\ (last_call'.op = "create_restore_point"
              /\ last_call'.outcome = "returned") =>
                /\ last_call'.value \notin DOMAIN active_sessions
                /\ last_call'.value \in DOMAIN storage']_vars

\* a checkpoint of session 1 was restored into session 1, whose record and
\* SessionState are those create_session made
C27_Witness ==
    /\ last_call = Returned("restore_session", Bool(TRUE))
    /\ SessionId(1) \in DOMAIN transparency_loggers
    /\ \E t \in 0..MaxTicks * DefaultTimeout :
          CheckpointId(SessionId(1), t) \in DOMAIN storage
    /\ active_sessions[SessionId(1)] =
          SessionState(SessionId(1), "u1", EmptyDict, <<>>, NoneStr)
    /\ storage[SessionId(1)] = active_sessions[SessionId(1)]

(***************************************************************************)
(* Precondition errors of the checkpoint operations.                       *)
(***************************************************************************)
\* C28: create_restore_point on a session id that the SessionManager does
\* not know raises SessionNotFound to its caller, and restore_session on a
\* checkpoint id under which nothing can be loaded raises
\* CheckpointNotFound to its caller.
C28_PreconditionErrorsRaised ==
    [][\A id \in CallerIds :
          /\ (/\ id \notin DOMAIN active_sessions
              /\ \E checkpoint_name \in CheckpointNames :
                    CreateRestorePoint(id, checkpoint_name)) =>
                last_call' = Raised("create_restore_point", "SessionNotFound")
          /\ (/\ load_session(storage, id) = None
              /\ \E target_session_id \in SessionIds :
                    RestoreSession(id, target_session_id)) =>
                last_call' = Raised("restore_session", "CheckpointNotFound")]_vars

(***************************************************************************)
(* The log of a session that was never created.                            *)
(***************************************************************************)
\* what a get_transparency_log call hands to its caller: the method has no
\* raise statement and calls nothing that raises on an unknown id
GetTransparencyLog(session_id, agent_type) ==
    Returned("get_transparency_log", get_transparency_log(session_id, agent_type))

\* C29: for a session id with no registered log, which execute_task
\* rejects by raising SessionNotFound, get_transparency_log ends in the
\* same way.
C29_UnknownSessionSignalled ==
    \A t \in Calls :
        (/\ tasks[t].pc = "raised"
         /\ tasks[t].session_id \notin DOMAIN transparency_loggers) =>
            \A agent_type \in {None, Some(ORCHESTRATOR)} :
                /\ GetTransparencyLog(tasks[t].session_id, agent_type).outcome = "raised"
                /\ GetTransparencyLog(tasks[t].session_id, agent_type).error =
                      tasks[t].error

(***************************************************************************)
(* Concurrent calls on one session.                                        *)
(***************************************************************************)
\* the accepted calls that hold log l
WritersOf(l) == {t \in Calls : Accepted(t) /\ tasks[t].logger = l}

\* C30: whatever the interleaving of the calls that hold a log, the log
\* holds no action twice and none of another call, and for each of the
\* calls exactly the actions the call logged, once each and in the call's
\* order: its task_start first, and its terminal action, once returned,
\* last.
C30_AppendsSerialized ==
    \A l \in DOMAIN loggers :
        LET log == loggers[l].actions
        IN  /\ \A i, j \in DOMAIN log : log[i].id = log[j].id => i = j
            /\ \A i \in DOMAIN log : log[i].task \in WritersOf(l)
            /\ \A t \in WritersOf(l) :
                  LET own == ActionsOf(t)
                      logged == SelectSeq(tasks[t].steps,
                                          LAMBDA x : x # "execute_command")
                  IN  /\ Len(own) = Len(logged)
                      /\ \A k \in DOMAIN own :
                            /\ own[k].id = <<t, k>>
                            /\ own[k].action_type = logged[k]
                            /\ IsTerminal(own[k].action_type) => k = Len(own)
                      /\ own[1].action_type = "task_start"
                      /\ Done(t) => IsTerminal(own[Len(own)].action_type)

\* two calls on one session have returned, and their actions alternate in
\* the session's log
C30_Witness ==
    \E l \in DOMAIN loggers :
        /\ WritersOf(l) = {1, 2}
        /\ Done(1) /\ Done(2)
        /\ tasks[1].session_id = tasks[2].session_id
        /\ \E i, j, k, m \in DOMAIN loggers[l].actions :
              /\ i < j /\ j < k /\ k < m
              /\ loggers[l].actions[i].task = 1
              /\ loggers[l].actions[j].task = 2
              /\ loggers[l].actions[k].task = 1
              /\ loggers[l].actions[m].task = 2

(***************************************************************************)
(* Suspension points.                                                      *)
(***************************************************************************)
\* C31: the wait for the sandboxed command is a suspension point under
\* both strategies: a call whose command has ended was suspended in
\* exec_wait, where other calls can take steps, before the command's result
\* came, and no step of a call lets the clock move while the other calls
\* stand still.
C31_WaitIsSuspension ==
    [][/\ \A t \in DOMAIN tasks' :
             tasks'[t].executed # None =>
                 /\ t \in DOMAIN tasks
                 /\ tasks[t].executed # None \/ tasks[t].pc = "exec_wait"
       /\ tasks' # tasks => now' = now]_vars

(***************************************************************************)
(* Checkpoints next to the calls in flight.                                *)
(***************************************************************************)
\* the calls and subscriptions of LogNext with create_restore_point among
\* them, and one log per session
CheckpointNext ==
    \/ \E u \in Users : SMCreateSession(u)
    \/ \E sid \in CallerIds, name \in CheckpointNames : CreateRestorePoint(sid, name)
    \/ \E rp \in CallerIds, target \in SessionIds :
            /\ Constructs(rp)
            /\ Len(loggers) < MaxRestores
            /\ RestoreSession(rp, target)
    \/ \E sid \in SessionIds, kind \in SubscriberKinds : Subscribe(sid, kind)
    \/ \E sid \in SessionIds : ExecuteTask(sid, MANUS, <<>>, FALSE, "exit0")
    \/ \E t \in 1..MaxTasks : SleepReturn(t)
    \/ NotifyStart
    \/ \E task \in handling : NotifyFinish(task)
    \/ CallEnds

CheckpointSpec == Init /\ [][CheckpointNext]_vars

\* C32: a create_restore_point call, also one made while a call of the
\* session is in flight, leaves every log with its actions and subscribers,
\* the registration of logs, the metrics, the notifications under way and
\* every call as they were, so that a call in flight goes on from the state
\* it was in.
C32_CheckpointIsSideChannel ==
    [][(last_call = NoCall /\ last_call'.op = "create_restore_point") =>
          /\ loggers' = loggers
          /\ transparency_loggers' = transparency_loggers
          /\ metrics' = metrics
          /\ tasks' = tasks
          /\ notifications' = notifications
          /\ now' = now]_vars

\* a create_restore_point call on session 1 has just returned while a call
\* on that session is in flight on a log with actions and a subscriber
C32_Witness ==
    /\ last_call = Returned("create_restore_point", CheckpointId(SessionId(1), now))
    /\ \E t \in Calls :
          /\ Accepted(t) /\ ~Done(t)
          /\ tasks[t].session_id = SessionId(1)
          /\ transparency_loggers[SessionId(1)] = tasks[t].logger
          /\ loggers[tasks[t].logger].subscribers # <<>>
          /\ loggers[tasks[t].logger].actions # <<>>

(***************************************************************************)
(* Commands that exit with a failure.                                      *)
(***************************************************************************)
\* the sandboxed command of the call ran and exited with a code other than 0
ExitedNonZero(call) == call.behaviour = "exit1"

\* C33: an isolated-mode task whose command ran and exited with a code
\* other than 0 returns with task_complete as its only terminal action and
\* a TaskResult with success = true; the failure shows as success = false
\* and the exit code in the ExecutionResult the result includes; and the
\* task adds one to total_tasks and successful_tasks, nothing to
\* failed_tasks.
C33_NonZeroExitCompletes ==
    [][\A t \in 1..MaxTasks :
         (Returns(t) /\ IsIsolated(tasks'[t]) /\ ExitedNonZero(tasks'[t])) =>
            /\ tasks'[t].executed.success = FALSE
            /\ tasks'[t].executed.exit_code \notin {0, -1}
            /\ tasks'[t].exception = NoneStr
            /\ tasks'[t].result.success = TRUE
            /\ tasks'[t].result.result =
                  [approach |-> "openhands", execution_result |-> tasks'[t].executed]
            /\ Last(ActionsOf(t)').action_type = "task_complete"
            /\ \A i \in DOMAIN TypesOf(t)' : TypesOf(t)'[i] # "task_failed"
            /\ metrics'.total_tasks = metrics.total_tasks + 1
            /\ metrics'.successful_tasks = metrics.successful_tasks + 1
            /\ metrics'.failed_tasks = metrics.failed_tasks]_vars

\* two isolated tasks have returned from a command that exited with 1, and
\* the executor has a docker client
C33_Witness ==
    /\ Calls = {1, 2}
    /\ \A t \in Calls :
          /\ Done(t) /\ IsIsolated(tasks[t]) /\ ExitedNonZero(tasks[t])
          /\ tasks[t].executed.exit_code = 1
          /\ ~tasks[t].executed.success
    /\ metrics.successful_tasks = 2
    /\ metrics.failed_tasks = 0
    /\ docker_client
    /\ "execute_command" \in {tasks[1].steps[i] : i \in DOMAIN tasks[1].steps}

(***************************************************************************)
(* Queries of a log.                                                       *)
(***************************************************************************)
\* the last n elements of a sequence
LastN(s, n) == SubSeq(s, Len(s) - n + 1, Len(s))

Min(a, b) == IF a < b THEN a ELSE b

\* C34: for every log, filter and limit given, 0 and limits above the
\* number of matches included, get_actions returns the last
\* min(limit, number of matches) of the actions of the log whose agent_type
\* is the filter's (of all its actions without a filter), in append order;
\* without a limit it returns all of them.
C34_QueryTailLimited ==
    \A l \in DOMAIN loggers :
        \A agent_type \in {None, Some(ORCHESTRATOR), Some(RESEARCH), Some(CODING)} :
            LET matches == IF agent_type = None THEN loggers[l].actions
                           ELSE SelectSeq(loggers[l].actions,
                                          LAMBDA a : a.agent_type = agent_type.some)
            IN  /\ get_actions(loggers[l], agent_type, None) = matches
                /\ \A limit \in 0..(Len(matches) + 1) :
                      get_actions(loggers[l], agent_type, Some(limit)) =
                          LastN(matches, Min(limit, Len(matches)))

(***************************************************************************)
(* Checkpoints of one session.                                             *)
(***************************************************************************)
\* C35: every create_restore_point call that returns, returns an id under
\* which no checkpoint was stored before, and leaves every checkpoint
\* stored before loadable with the document it was created with.
C35_CheckpointIdsAreFresh ==
    [][(/\ last_call = NoCall
        /\ last_call'.op = "create_restore_point"
        /\ last_call'.outcome = "returned") =>
          /\ last_call'.value \notin DOMAIN storage
          /\ \A id \in CheckpointDocs :
                load_session(storage', id) = load_session(storage, id)]_vars

(***************************************************************************)
(* The log in a checkpoint.                                                *)
(***************************************************************************)
\* the session a checkpoint id was derived from
SessionOf(checkpoint_id) == SessionId(checkpoint_id.base)

\* C36: the document of a checkpoint holds the actions that the log of its
\* session holds when create_restore_point is called, in their order, and
\* after a restore_session from it that returned true get_transparency_log
\* of the target returns these actions.
C36_CheckpointRecordsLog ==
    [][/\ (/\ last_call = NoCall
           /\ last_call'.op = "create_restore_point"
           /\ last_call'.outcome = "returned") =>
             storage'[last_call'.value].transparency_log =
                 IF SessionOf(last_call'.value) \in DOMAIN transparency_loggers
                 THEN loggers[transparency_loggers[SessionOf(last_call'.value)]].actions
                 ELSE <<>>
       /\ \A restore_point_id \in CheckpointDocs, target_session_id \in SessionIds :
             (/\ RestoreSession(restore_point_id, target_session_id)
              /\ last_call' = Returned("restore_session", Bool(TRUE))) =>
                 get_transparency_log(target_session_id, None)' =
                     [i \in DOMAIN storage[restore_point_id].transparency_log |->
                         asdict(storage[restore_point_id].transparency_log[i])]]_vars

(***************************************************************************)
(* The two registries of sessions.                                         *)
(***************************************************************************)
\* C37: every session id with a registered log, on which execute_task is
\* accepted, is a live session of the SessionManager, on which
\* create_restore_point is accepted.
C37_RegistryConsistency ==
    DOMAIN transparency_loggers \subseteq DOMAIN active_sessions

(***************************************************************************)
(* A restore into the session of a call in flight.                         *)
(***************************************************************************)
\* callback c has observed action id
ObservedBy(c, id) ==
    \E j \in DOMAIN Observed(c) : Observed(c)[j] = id

\* get_transparency_log of the session of call t returns action id
ReturnedForSession(t, id) ==
    \E i \in DOMAIN get_transparency_log(tasks[t].session_id, None) :
        get_transparency_log(tasks[t].session_id, None)[i].id = id

\* C38: every action that a call appends, its terminal action included and
\* also when restore_session has targeted the call's session since the call
\* began, is from then on returned by get_transparency_log for the session
\* and observed by the subscribers of the log the call began on.
C38_RestoreKeepsTaskInLog ==
    [][\A t \in Stepping :
          tasks'[t].pc # "raised" =>
              \A k \in (ConstructedBefore(t) + 1)
                          ..(ConstructedBefore(t) + Len(LoggedInStep(t))) :
                  /\ ReturnedForSession(t, <<t, k>>)'
                  /\ \A c \in SubscribersOf(loggers[tasks'[t].logger]) :
                         ObservedBy(c, <<t, k>>)']_vars

(***************************************************************************)
(* A hybrid task whose sub-strategy raises.                                *)
(***************************************************************************)
\* call t is a hybrid task that left its strategy by an exception
FailedHybrid(t) ==
    /\ t \in DOMAIN tasks
    /\ Accepted(t)
    /\ IsHybrid(tasks[t])
    /\ tasks[t].exception # NoneStr

\* the action types of the isolated strategy, the first of a hybrid task
OpenhandsTypes == {"perceive", "plan", "execute", "reflect"}

\* what a hybrid task that failed in its isolated strategy has logged:
\* task_start, actions of that strategy only, then one task_failed
StoppedAtFailure(types) ==
    /\ Len(types) >= 2
    /\ types[1] = "task_start"
    /\ types[Len(types)] = "task_failed"
    /\ \A i \in 2..(Len(types) - 1) : types[i] \in OpenhandsTypes

\* C39: when a sub-strategy of a hybrid task raises, the call's actions in
\* the log are task_start, the actions of the strategies up to the failure
\* and one task_failed: no action of a later sub-strategy, no
\* hybrid_synthesis and no task_complete.  The step counts the task once in
\* total_tasks and failed_tasks, and from then on the call's actions stay as
\* they are.
C39_HybridFailureStops ==
    [][\A t \in DOMAIN tasks' :
          FailedHybrid(t)' =>
              IF FailedHybrid(t)
              THEN ActionsOf(t)' = ActionsOf(t)
              ELSE /\ StoppedAtFailure(TypesOf(t))'
                   /\ IsPrefix(IF t \in DOMAIN tasks /\ Accepted(t)
                               THEN ActionsOf(t) ELSE <<>>, ActionsOf(t)')
                   /\ tasks'[t].pc = "done"
                   /\ tasks'[t].result.success = FALSE
                   /\ metrics'.total_tasks = metrics.total_tasks + 1
                   /\ metrics'.failed_tasks = metrics.failed_tasks + 1
                   /\ metrics'.successful_tasks = metrics.successful_tasks]_vars

\* a hybrid task has failed after its isolated strategy logged perceive and
\* plan, next to another call on the same log
C39_Witness ==
    \E t \in DOMAIN tasks :
        /\ FailedHybrid(t)
        /\ TypesOf(t) = <<"task_start", "perceive", "plan", "task_failed">>
        /\ metrics.failed_tasks = 1
        /\ \E o \in DOMAIN tasks :
              o # t /\ Accepted(o) /\ tasks[o].logger = tasks[t].logger

(***************************************************************************)
(* What restore_session reports.                                           *)
(***************************************************************************)
\* C40: restore_session returns True exactly when the checkpoint document
\* exists and could be loaded, and a call that returns False leaves the
\* registered session ids, every registered log with its subscribers and
\* the metrics counters as they were.
C40_RestoreReportsLoad ==
    [][\A restore_point_id \in CallerIds, target_session_id \in CallerIds :
          RestoreSession(restore_point_id, target_session_id) =>
              /\ (last_call' = Returned("restore_session", Bool(TRUE)))
                     <=> (load_session(storage, restore_point_id) # None)
              /\ last_call' = Returned("restore_session", Bool(FALSE)) =>
                     /\ transparency_loggers' = transparency_loggers
                     /\ loggers' = loggers
                     /\ metrics' = metrics]_vars

====
